---- MODULE Spec2Model ----
(***************************************************************************)
(* A model of the jevalide validation library: the rule execution engine   *)
(* (class Validation), the field validator (class InputValidator) and the  *)
(* form aggregator (class FormValidator) with its wildcard expansion.      *)
(*                                                                         *)
(* JavaScript values are records [k, s, n, o]: k is the kind ("null",      *)
(* "undefined", "string", "number", "nan", "object"), s the characters of  *)
(* a string, n the value of a number, o the own properties of an object.   *)
(* A string is a sequence of characters; a catalog template is a string    *)
(* whose literal runs are written as one element each.                     *)
(***************************************************************************)
EXTENDS Integers, Sequences, FiniteSets, TLC

\* Longest rule chain given to an engine.
MaxRules == 3

\* Most predicates registered with FormValidator.with().
MaxPredicates == 2

\* Most templates pushed on FormValidator.wildcardPattern.
MaxTemplates == 1

(***************************************************************************)
(* Values                                                                  *)
(***************************************************************************)
NoProps == <<>>
Null == [k |-> "null", s |-> <<>>, n |-> 0, o |-> NoProps]
Undef == [k |-> "undefined", s |-> <<>>, n |-> 0, o |-> NoProps]
NaN == [k |-> "nan", s |-> <<>>, n |-> 0, o |-> NoProps]
Str(chars) == [k |-> "string", s |-> chars, n |-> 0, o |-> NoProps]
Num(i) == [k |-> "number", s |-> <<>>, n |-> i, o |-> NoProps]
Obj(props) == [k |-> "object", s |-> <<>>, n |-> 0, o |-> props]

\* typeof v: NaN is a number, null is an object.
TypeOf(v) ==
  CASE v.k = "nan" -> "number"
    [] v.k = "null" -> "object"
    [] OTHER -> v.k

Digits == {"0", "1", "2", "3", "4", "5", "6", "7", "8", "9"}

DigitVal(c) ==
  CASE c = "0" -> 0 [] c = "1" -> 1 [] c = "2" -> 2 [] c = "3" -> 3
    [] c = "4" -> 4 [] c = "5" -> 5 [] c = "6" -> 6 [] c = "7" -> 7
    [] c = "8" -> 8 [] c = "9" -> 9

RECURSIVE TrimStart(_)
TrimStart(s) ==
  IF s # <<>> /\ Head(s) = " " THEN TrimStart(Tail(s)) ELSE s

RECURSIVE TrimEnd(_)
TrimEnd(s) ==
  IF s # <<>> /\ s[Len(s)] = " " THEN TrimEnd(SubSeq(s, 1, Len(s) - 1)) ELSE s

\* String.prototype.trim
Trim(s) == TrimEnd(TrimStart(s))

RECURSIVE ParseDigits(_)
ParseDigits(s) ==
  IF s = <<>> THEN 0
  ELSE 10 * ParseDigits(SubSeq(s, 1, Len(s) - 1)) + DigitVal(s[Len(s)])

\* Number(v) on the values of the model: a string is trimmed, the empty
\* string is 0, a run of decimal digits is its value, anything else is NaN.
ToNumber(v) ==
  CASE v.k = "number" -> v
    [] v.k = "nan" -> NaN
    [] v.k = "null" -> Num(0)
    [] v.k = "undefined" -> NaN
    [] v.k = "object" -> NaN
    [] v.k = "string" ->
         LET t == Trim(v.s) IN
         IF t = <<>> THEN Num(0)
         ELSE IF \A i \in 1..Len(t) : t[i] \in Digits THEN Num(ParseDigits(t))
         ELSE NaN

IsNaN(v) == v.k = "nan"

(***************************************************************************)
(* Rule callbacks: (value, param, type) -> {passes, value, alias?, type?}.  *)
(* An absent alias or type is "none"; error is the message of the error     *)
(* the callback throws, "" when it returns.                                 *)
(***************************************************************************)
NoneT == "none"

State(passes, value, type, alias) ==
  [passes |-> passes, value |-> value, type |-> type, alias |-> alias,
   error |-> ""]

Throws(msg, input) ==
  [passes |-> FALSE, value |-> input, type |-> NoneT, alias |-> NoneT,
   error |-> msg]

isNumber(input) ==
  IF input = Str(<<>>) \/ input = Null \/ input = Undef
    THEN State(FALSE, input, NoneT, NoneT)
  ELSE IF input = Str(<<"0">>) \/ input = Num(0)
    THEN State(TRUE, Num(0), "number", NoneT)
  ELSE IF input = Str(<<"1">>) \/ input = Num(1)
    THEN State(TRUE, Num(1), "number", NoneT)
  ELSE State(~IsNaN(ToNumber(input)) /\ TypeOf(input) # "boolean"
               /\ TypeOf(input) # "object",
             ToNumber(input), "number", NoneT)

required(input) ==
  IF TypeOf(input) = "object" /\ input # Null
    THEN State(DOMAIN input.o # {}, input, NoneT, NoneT)
  ELSE IF TypeOf(input) = "string"
    THEN State(Len(Trim(input.s)) > 0, input, NoneT, NoneT)
  ELSE IF TypeOf(input) = "number"
    THEN State(TRUE, input, NoneT, NoneT)
  ELSE State(input # Null /\ input # Undef /\ input # Str(<<>>),
             input, NoneT, NoneT)

nullable(input) == State(TRUE, input, NoneT, NoneT)

minlength(input, length) ==
  State(IF TypeOf(input) = "string"
          THEN LET l == ToNumber(length) IN ~IsNaN(l) /\ Len(input.s) >= l.n
          ELSE FALSE,
        input, NoneT, NoneT)

\* No value of the model is a File or a Blob.
isFile(value) == State(FALSE, value, NoneT, NoneT)

minRule(input, min, type) ==
  IF ~isNumber(min).passes
    THEN Throws("Min rule parameter must be an integer", input)
  ELSE IF isFile(input).passes \/ type = "file"
    \* minFileSize of a value that holds no file
    THEN State(FALSE, input, NoneT, NoneT)
  ELSE LET in0 == IF input = Undef \/ input = Null THEN Num(0) ELSE input IN
       IF isNumber(in0).passes
         THEN State(ToNumber(in0).n >= ToNumber(min).n, ToNumber(in0),
                    NoneT, NoneT)
         ELSE State(minlength(in0, min).passes, in0, NoneT, "minlength")

\* A rule registered with Bag.rule(name, callback) and no message: the
\* catalog has no entry under its name.  It passes on numbers only.
custom(input) == State(input.k = "number", input, NoneT, NoneT)

\* Bag.getRule: the callback registered under a rule name, "undefined" for a
\* name the bag does not hold.
BagRules == {"required", "nullable", "number", "min", "custom"}
getRule(name) == IF name \in BagRules THEN name ELSE "undefined"

\* ruleCallback(this._value, params, inputType)
ruleCallback(cb, value, params, type) ==
  CASE cb = "required" -> required(value)
    [] cb = "nullable" -> nullable(value)
    [] cb = "number" -> isNumber(value)
    [] cb = "min" -> minRule(value, params, type)
    [] cb = "custom" -> custom(value)

(***************************************************************************)
(* Messages: the en catalog (the entries of the rules the model uses), the  *)
(* catalog lookup and the template substitution.                            *)
(***************************************************************************)
en_messages ==
  [default |-> <<"This field is invalid">>,
   required |-> <<"This field is required">>,
   minlength |-> <<"The minimum number of allowed characters is: ", ":arg0">>,
   min |-> <<"The ", ":field", " field must be greater than or equal to '",
             ":arg0", "'">>,
   number |-> <<"This field must be a number">>,
   nullable |-> <<>>]

\* Local.getRuleMessage under the default locale: messages[rule] ??
\* messages['default'] (the empty template of nullable is not nullish).
getRuleMessage(rule) ==
  IF rule \in DOMAIN en_messages THEN en_messages[rule]
  ELSE en_messages["default"]

\* value.toString() of a rule parameter; oParams?.toString() ?? '' for an
\* undefined or null one.
RECURSIVE DigitsOf(_)
DigitsOf(i) ==
  LET d == <<"0", "1", "2", "3", "4", "5", "6", "7", "8", "9">>[(i % 10) + 1] IN
  IF i < 10 THEN <<d>> ELSE DigitsOf(i \div 10) \o <<d>>

ToStringOrEmpty(v) ==
  CASE v.k = "string" -> v.s
    [] v.k = "number" -> DigitsOf(v.n)
    [] v.k = "nan" -> <<"NaN">>
    [] OTHER -> <<>>

\* spliteParam: the parameter string cut at its commas.
RECURSIVE spliteParam(_)
spliteParam(s) ==
  IF \E i \in 1..Len(s) : s[i] = ","
    THEN LET i == CHOOSE j \in 1..Len(s) :
                    s[j] = "," /\ \A h \in 1..(j - 1) : s[h] # ","
         IN <<SubSeq(s, 1, i - 1)>> \o spliteParam(SubSeq(s, i + 1, Len(s)))
    ELSE <<s>>

\* String.prototype.replace(pattern, text) with a string pattern: the first
\* occurrence only.
ReplaceFirst(message, pattern, text) ==
  IF \E i \in 1..Len(message) : message[i] = pattern
    THEN LET i == CHOOSE j \in 1..Len(message) :
                    message[j] = pattern
                    /\ \A h \in 1..(j - 1) : message[h] # pattern
         IN SubSeq(message, 1, i - 1) \o text
              \o SubSeq(message, i + 1, Len(message))
    ELSE message

ArgName(i) == <<":arg0", ":arg1", ":arg2", ":arg3">>[i + 1]

RECURSIVE JoinArgs(_)
JoinArgs(args) ==
  IF args = <<>> THEN <<>>
  ELSE IF Len(args) = 1 THEN args[1]
  ELSE args[1] \o <<", ">> \o JoinArgs(Tail(args))

\* Messages._replace: the arguments in insertion order (arg0, arg1, ..., then
\* field), each replacing the first occurrence of its placeholder when its
\* value is not empty, then the spread marker.
RECURSIVE ReplaceArgs(_, _, _)
ReplaceArgs(message, args, i) ==
  IF i > Len(args) THEN message
  ELSE ReplaceArgs(IF args[i] # <<>>
                     THEN ReplaceFirst(message, ArgName(i - 1), args[i])
                     ELSE message,
                   args, i + 1)

replace(message, args, field) ==
  LET m1 == ReplaceArgs(message, args, 1)
      m2 == IF field # <<>> THEN ReplaceFirst(m1, ":field", field) ELSE m1
  IN ReplaceFirst(m2, "...arg", JoinArgs(args))

\* Messages.parseMessage(attribute, rule, message, oParams)
parseMessage(attribute, message, oParams) ==
  replace(message, spliteParam(ToStringOrEmpty(oParams)), attribute)

(***************************************************************************)
(* The execution engine (class Validation).  An engine is a record         *)
(*   rules        this._rules.all(): the chain, each entry                 *)
(*                [name, params, validate, message]                        *)
(*   value        this._value                                              *)
(*   ruleExecuted this._ruleExecuted, the records in insertion order       *)
(*   failOnfirst  this._failOnfirst                                        *)
(*   inputType    this._inputType                                          *)
(*   attr         this._attr                                               *)
(*   messages     this._messages, the templates chosen so far, by rule     *)
(***************************************************************************)
Rule(name, params, message) ==
  [name |-> name, params |-> params, validate |-> getRule(name),
   message |-> message]

\* new RuleExecuted(r, originalRuleName)
NewRuleExecuted(r, originalRuleName) ==
  [ruleName |-> r, orignalName |-> originalRuleName, params |-> Undef,
   passed |-> FALSE, valueTested |-> Undef, run |-> FALSE, message |-> Null]

IndexOfRecord(list, r) ==
  IF \E i \in 1..Len(list) : list[i].ruleName = r
    THEN CHOOSE i \in 1..Len(list) :
           list[i].ruleName = r /\ \A h \in 1..(i - 1) : list[h].ruleName # r
    ELSE 0

makeRuleExcutedInstance(list, r, originalRuleName) ==
  IF IndexOfRecord(list, r) > 0 THEN list[IndexOfRecord(list, r)]
  ELSE NewRuleExecuted(r, originalRuleName)

\* A variant that pushes the record whether it is in the list or not.
addRuleExecutedPushed(list, ruleExec) == Append(list, ruleExec)

\* A variant in which a record found in the list is a copy of the one in the
\* list: what the pass writes does not show in the list.
addRuleExecutedOnce(list, ruleExec) ==
  IF IndexOfRecord(list, ruleExec.ruleName) > 0 THEN list
  ELSE Append(list, ruleExec)

\* A variant that puts a new record at the head of the list.
addRuleExecutedFirst(list, ruleExec) ==
  IF IndexOfRecord(list, ruleExec.ruleName) > 0
    THEN [list EXCEPT ![IndexOfRecord(list, ruleExec.ruleName)] = ruleExec]
    ELSE <<ruleExec>> \o list

\* A record found in the list is the object the pass has been writing to:
\* the list already shows its new fields.  A new one is pushed.
addRuleExecuted(list, ruleExec) ==
  IF IndexOfRecord(list, ruleExec.ruleName) > 0
    THEN [list EXCEPT ![IndexOfRecord(list, ruleExec.ruleName)] = ruleExec]
    ELSE Append(list, ruleExec)

\* The writes to a record made before it is (or without its being) added:
\* they show in the list only when the record is already in it.
writeThrough(list, ruleExec) ==
  IF IndexOfRecord(list, ruleExec.ruleName) > 0
    THEN [list EXCEPT ![IndexOfRecord(list, ruleExec.ruleName)] = ruleExec]
    ELSE list

NoMessages == [r \in {} |-> <<>>]

\* A variant that never takes the message declared with the rule.
chosenTemplateNoOverride(ruleExec, aliasRule, message) ==
  getRuleMessage(aliasRule)

\* A variant that looks the catalog up under the record's own name.
chosenTemplateByName(ruleExec, aliasRule, message) ==
  IF message.k = "string" /\ message.s # <<>>
     /\ message.s # getRuleMessage(ruleExec.orignalName)
    THEN message.s
    ELSE getRuleMessage(ruleExec.ruleName)

\* this._messages[ruleExec.ruleName] = ...
chosenTemplate(ruleExec, aliasRule, message) ==
  IF message.k = "string" /\ message.s # <<>>
     /\ message.s # getRuleMessage(ruleExec.orignalName)
    THEN message.s
    ELSE getRuleMessage(aliasRule)

\* Messages.getRulesMessages([rule])[0] over the catalog overlaid with
\* this._messages
getRulesMessage(messages, rule) ==
  IF messages[rule] # <<>> THEN messages[rule]
  ELSE <<"The input value is not valid">>

PutMessage(messages, rule, template) ==
  [r \in (DOMAIN messages) \cup {rule} |->
     IF r = rule THEN template ELSE messages[r]]

\* _parseRuleMessage: the record with its rendered message
parseRuleMessage(messages, attr, ruleExec) ==
  [ruleExec EXCEPT !.message =
     Str(parseMessage(attr, getRulesMessage(messages, ruleExec.ruleName),
                      ruleExec.params))]

\* A variant whose latch does not count undefined as empty.
isNullableAndNullNoUndef(ruleName, state, value) ==
  ruleName = "nullable" /\ state.passes /\ value \in {Null, Str(<<>>)}

\* lines 93-101: the latch after a rule has run
isNullableAndNullAfter(ruleName, state, value) ==
  ruleName = "nullable" /\ state.passes
  /\ (value = Null \/ value = Str(<<>>) \/ value = Undef)

\* A variant that keeps the value the rule was given.
carriedValueKept(value, state) == value

\* line 104: the value the next rule is given
carriedValue(value, state) == state.value

\* line 105: the type the next rule is given
carriedType(inputType, state) ==
  IF state.type # NoneT THEN state.type ELSE inputType

\* A variant that catches what the callback throws.
callbackErrorCaught(state) == ""

\* line 90: nothing catches what the callback throws
callbackError(state) == state.error

\* lines 112-116: whether the loop breaks after this rule
breaksAfter(failOnfirst, passed) == failOnfirst /\ ~passed

\* lines 108-123: the record is marked run, added to the list if it is not
\* in it, and given its message (or none) unless the loop breaks first.
StoreRule(st, i, rule, state, rx1, messages1) ==
  [eng |-> [st.eng EXCEPT
              !.value = rx1.valueTested,
              !.ruleExecuted =
                 addRuleExecuted(st.eng.ruleExecuted,
                    IF ~rx1.passed
                      THEN parseRuleMessage(messages1, st.eng.attr, rx1)
                    ELSE IF st.eng.failOnfirst THEN rx1
                    ELSE [rx1 EXCEPT !.message = Null]),
              !.messages = messages1],
   inputType |-> carriedType(st.inputType, state),
   isNullableAndNull |->
     st.isNullableAndNull
       \/ isNullableAndNullAfter(rule.name, state, st.eng.value),
   ended |-> breaksAfter(st.eng.failOnfirst, rx1.passed),
   thrown |-> st.thrown,
   calls |-> Append(st.calls,
      [idx |-> i, rule |-> rule.name, invoked |-> TRUE,
       value |-> st.eng.value, type |-> st.inputType,
       threw |-> FALSE, passes |-> state.passes,
       returned |-> state.value, rtype |-> state.type,
       alias |-> state.alias])]

\* lines 103-106 and 189-218: the record takes the callback's verdict and
\* value; a failed rule's template is chosen under the alias or the name.
RecordRule(st, i, rule, state, rx1) ==
  StoreRule(st, i, rule, state, rx1,
            IF rx1.passed THEN st.eng.messages
            ELSE PutMessage(st.eng.messages, rx1.ruleName,
                   chosenTemplate(rx1,
                     IF state.alias # NoneT THEN state.alias ELSE rule.name,
                     rule.message)))

\* line 90 on: what the callback returned, or threw
InvokeRule(st, i, rule, ruleExec0, state) ==
  IF callbackError(state) # ""
    THEN [st EXCEPT
            !.eng.ruleExecuted = writeThrough(st.eng.ruleExecuted, ruleExec0),
            !.ended = TRUE,
            !.thrown = <<callbackError(state)>>,
            !.calls = Append(st.calls,
               [idx |-> i, rule |-> rule.name, invoked |-> TRUE,
                value |-> st.eng.value, type |-> st.inputType,
                threw |-> TRUE, passes |-> FALSE,
                returned |-> st.eng.value, rtype |-> NoneT,
                alias |-> NoneT])]
    ELSE RecordRule(st, i, rule, state,
                    [ruleExec0 EXCEPT
                       !.passed = state.passes,
                       !.valueTested = carriedValue(st.eng.value, state),
                       !.run = TRUE])

\* lines 67-90: the latch branch, the missing callback, the call
IterateRule(st, i, rule, ruleExec0) ==
  IF st.isNullableAndNull
    THEN [st EXCEPT
            !.eng.ruleExecuted =
               addRuleExecuted(st.eng.ruleExecuted,
                  [ruleExec0 EXCEPT !.passed = TRUE,
                                    !.valueTested = st.eng.value,
                                    !.run = TRUE]),
            !.calls = Append(st.calls,
               [idx |-> i, rule |-> rule.name, invoked |-> FALSE,
                value |-> st.eng.value, type |-> st.inputType,
                threw |-> FALSE, passes |-> TRUE,
                returned |-> st.eng.value, rtype |-> NoneT,
                alias |-> NoneT])]
  ELSE IF rule.validate = "undefined"
    THEN [st EXCEPT
            !.eng.ruleExecuted = writeThrough(st.eng.ruleExecuted, ruleExec0),
            !.ended = TRUE,
            !.thrown = <<"The rule ", rule.name, " is not defined">>]
  ELSE InvokeRule(st, i, rule, ruleExec0,
                  ruleCallback(rule.validate, st.eng.value, rule.params,
                               st.inputType))

\* One iteration of the loop of validate() on rule i.  st carries the engine,
\* the locals inputType and isNullableAndNull, whether the loop has ended
\* (break or throw), the error thrown, and calls: one entry per iteration
\* that reached the callback or skipped it under the latch, with the
\* arguments the callback was (or would have been) given, whether it was
\* invoked, whether it threw, and what it returned.
RuleIteration(st, i) ==
  IterateRule(st, i, st.eng.rules[i],
              [makeRuleExcutedInstance(st.eng.ruleExecuted,
                                       st.eng.rules[i].name,
                                       st.eng.rules[i].name)
                 EXCEPT !.params = st.eng.rules[i].params])

RECURSIVE RunRules(_, _)
RunRules(st, i) ==
  IF st.ended \/ i > Len(st.eng.rules) THEN st
  ELSE RunRules(RuleIteration(st, i), i + 1)

hasErrors(e) == \E i \in 1..Len(e.ruleExecuted) : ~e.ruleExecuted[i].passed

passes(e) == ~hasErrors(e)

\* getErrors(): rule name -> message, of the records that did not pass
getErrors(e) ==
  LET failed == {i \in 1..Len(e.ruleExecuted) : ~e.ruleExecuted[i].passed} IN
  [r \in {e.ruleExecuted[i].orignalName : i \in failed} |->
     LET last == CHOOSE i \in failed :
                   e.ruleExecuted[i].orignalName = r
                   /\ \A j \in failed :
                        e.ruleExecuted[j].orignalName = r => j <= i
     IN IF e.ruleExecuted[last].message = Null THEN <<>>
        ELSE e.ruleExecuted[last].message.s]

\* line 126: return !this.hasErrors()
validateResult(st) ==
  [eng |-> st.eng, thrown |-> st.thrown,
   ret |-> st.thrown = <<>> /\ ~hasErrors(st.eng), calls |-> st.calls]

\* validate(): the engine after the call, the error thrown (<<>> when the call
\* returns), the value returned and the iterations made.
validate(e) ==
  validateResult(RunRules([eng |-> e, inputType |-> e.inputType,
                           isNullableAndNull |-> FALSE, ended |-> FALSE,
                           thrown |-> <<>>, calls |-> <<>>], 1))

\* setRules(rules), which the rules setter calls
setRules(e, rules) == [e EXCEPT !.rules = rules]

\* new Validation(locale), then setRules(rules)
NewValidation(rules, attr) ==
  [rules |-> rules, value |-> Undef, ruleExecuted |-> <<>>,
   failOnfirst |-> TRUE, inputType |-> "text", attr |-> attr,
   messages |-> NoMessages]

(***************************************************************************)
(* The field validator (class InputValidator over AbstractInputralidator).  *)
(* A field name is the sequence of the segments of its dotted path.         *)
(*   param      this.param: name, rules, failsOnfirst                       *)
(*   validator  this.validator, whose chain is this.rules (one InputRule    *)
(*              object, shared by reference)                                *)
(*   value      this._value                                                 *)
(*   hooked     whether hooks['input.validated'] holds a callback           *)
(***************************************************************************)
RECURSIVE JoinPath(_)
JoinPath(path) ==
  IF path = <<>> THEN <<>>
  ELSE IF Len(path) = 1 THEN <<path[1]>>
  ELSE <<path[1], ".">> \o JoinPath(Tail(path))

InputParms(name, rules, failsOnfirst) ==
  [name |-> name, rules |-> rules, failsOnfirst |-> failsOnfirst]

\* InputParms with a type.
TypedParms(name, rules, failsOnfirst, type) ==
  [name |-> name, rules |-> rules, failsOnfirst |-> failsOnfirst,
   type |-> type]

\* _init, line 91: this._type = params?.type ?? 'text'
DeclaredType(params) ==
  IF "type" \in DOMAIN params THEN params.type ELSE "text"

\* constructor and _init: the chain is set from params.rules, failsOnFirst
\* from params.failsOnfirst, the message attribute from the name, and the
\* type is kept by the input.
NewInputValidator(params) ==
  [param |-> params,
   validator |-> [NewValidation(params.rules, JoinPath(params.name))
                    EXCEPT !.failOnfirst = params.failsOnfirst],
   value |-> Undef,
   type |-> DeclaredType(params),
   hooked |-> FALSE]

\* return this.validator.passes()
validResult(input, r) ==
  [input |-> [input EXCEPT !.validator = r.eng],
   thrown |-> r.thrown,
   ret |-> r.thrown = <<>> /\ passes(r.eng),
   calls |-> r.calls]

\* valid(): this.validator.value = this.value (which validates)
valid(input) ==
  validResult(input, validate([input.validator EXCEPT !.value = input.value]))

\* setValue(value): this._value = value; this.validate()
setValue(input, value) == valid([input EXCEPT !.value = value])

\* destroy(): this.rules.clear(); this.param.rules = []
destroy(input) ==
  [input EXCEPT !.validator.rules = <<>>, !.param.rules = <<>>]

\* data_get(target, path): the value at a dotted path, undefined when a
\* segment is missing or is looked up in a value that is no object.
RECURSIVE data_get(_, _)
data_get(target, path) ==
  IF path = <<>> THEN target
  ELSE IF target.k = "object" /\ Head(path) \in DOMAIN target.o
    THEN data_get(target.o[Head(path)], Tail(path))
  ELSE Undef

(***************************************************************************)
(* The form aggregator (class FormValidator).                               *)
(*   inputs             this._inputs                                        *)
(*   data               this._data                                          *)
(*   wildcardPattern    this.wildcardPattern: {name, input}                 *)
(*   withCallbacks      this._withCallbacks                                 *)
(*   lifeCycleCallbacks this._lifeCycleCallbacks, the handlers by event      *)
(*   emitOnPasses, emitOnFails  the two latches                             *)
(***************************************************************************)
IndexOfInput(inputs, name) ==
  IF \E i \in 1..Len(inputs) : inputs[i].param.name = name
    THEN CHOOSE i \in 1..Len(inputs) :
           inputs[i].param.name = name
           /\ \A h \in 1..(i - 1) : inputs[h].param.name # name
    ELSE 0

\* A variant that filters nothing out.
FilterOutNone(inputs, name) == inputs

RECURSIVE FilterOut(_, _)
FilterOut(inputs, name) ==
  IF inputs = <<>> THEN <<>>
  ELSE IF Head(inputs).param.name = name THEN FilterOut(Tail(inputs), name)
  ELSE <<Head(inputs)>> \o FilterOut(Tail(inputs), name)

\* setValidity(): every input gets an 'input.validated' hook
setValidity(inputs) ==
  [i \in 1..Len(inputs) |-> [inputs[i] EXCEPT !.hooked = TRUE]]

\* addInput, lines 262-265: the old input of that name after the destroy()
\* it is given, if there is one.
destroyedBy(f, inputInstance) ==
  IF IndexOfInput(f.inputs, inputInstance.param.name) > 0
    THEN <<destroy(f.inputs[IndexOfInput(f.inputs, inputInstance.param.name)])>>
    ELSE <<>>

\* A variant that keeps the input of that name.
addInputAppended(f, inputInstance) ==
  [f EXCEPT !.inputs = setValidity(Append(f.inputs, inputInstance))]

\* addInput(inputInstance): the input of that name is destroyed and dropped,
\* the new one pushed.
addInput(f, inputInstance) ==
  [f EXCEPT !.inputs =
     setValidity(Append(FilterOut(f.inputs, inputInstance.param.name),
                        inputInstance))]

\* The segments before the first ".*" of a template name.
RECURSIVE WildcardPrefix(_)
WildcardPrefix(pattern) ==
  IF Len(pattern) < 2 THEN pattern
  ELSE IF pattern[2] = "*" THEN <<pattern[1]>>
  ELSE <<pattern[1]>> \o WildcardPrefix(Tail(pattern))

\* Object.keys(data), in the order the model's objects list their keys.
KeyOrder == <<"a", "b", "age", "name", "profile", "users">>

RECURSIVE KeysFrom(_, _)
KeysFrom(props, i) ==
  IF i > Len(KeyOrder) THEN <<>>
  ELSE (IF KeyOrder[i] \in DOMAIN props THEN <<KeyOrder[i]>> ELSE <<>>)
         \o KeysFrom(props, i + 1)

\* The index keys of a string are its positions, written in decimal.
IndexKey(i) == <<"0", "1", "2", "3", "4", "5", "6", "7", "8", "9">>[i]

ObjectKeys(v) ==
  IF v.k = "string" THEN [i \in 1..Len(v.s) |-> IndexKey(i)]
  ELSE KeysFrom(v.o, 1)

\* A variant that expands whatever the prefix resolves to.
isExpandableAny(data) == TRUE

\* typeof data === 'object' && data
isExpandable(data) == data.k = "object"

\* The inner loop of handleWildcards for template w: one field per key.
RECURSIVE ExpandKeys(_, _, _, _)
ExpandKeys(f, w, name, keys) ==
  IF keys = <<>> THEN f
  ELSE LET input == [f.wildcardPattern[w].input EXCEPT
                       !.name = Append(name, Head(keys))]
           f1 == [f EXCEPT !.wildcardPattern[w].input = input]
       IN ExpandKeys(addInput(f1, NewInputValidator(input)), w, name,
                     Tail(keys))

RECURSIVE ExpandFrom(_, _)
ExpandFrom(f, w) ==
  IF w > Len(f.wildcardPattern) THEN f
  ELSE LET name == WildcardPrefix(f.wildcardPattern[w].name)
           data == data_get(f.data, name)
       IN ExpandFrom(IF isExpandable(data)
                       THEN ExpandKeys(f, w, name, ObjectKeys(data))
                       ELSE f,
                     w + 1)

\* A variant that first drops the fields under a template's prefix.
handleWildcardsPruned(f) ==
  LET UnderNoTemplate(input) ==
        \A w \in 1..Len(f.wildcardPattern) :
          SubSeq(input.param.name, 1,
                 Len(WildcardPrefix(f.wildcardPattern[w].name)))
            # WildcardPrefix(f.wildcardPattern[w].name)
  IN ExpandFrom([f EXCEPT !.inputs = SelectSeq(f.inputs, UnderNoTemplate)], 1)

handleWildcards(f) == ExpandFrom(f, 1)

\* setData(data)
setData(f, data) ==
  handleWildcards([f EXCEPT !.data = IF data.k = "object" THEN data
                                     ELSE Obj(NoProps)])

\* mergeData(data): {...this._data, ...data}
mergeData(f, data) ==
  handleWildcards(
    [f EXCEPT !.data =
       Obj([key \in (DOMAIN f.data.o) \cup (DOMAIN data.o) |->
              IF key \in DOMAIN data.o THEN data.o[key] ELSE f.data.o[key]])])

\* _bootInputs(param, name) for a rule string or array given under a name
bootInputs(f, name, rules) ==
  LET inputParam == InputParms(name, rules, TRUE) IN
  IF \E i \in 1..Len(name) : name[i] = "*"
    THEN handleWildcards(
           [f EXCEPT !.wildcardPattern =
              Append(f.wildcardPattern,
                     [name |-> name, input |-> inputParam])])
    ELSE addInput(f, NewInputValidator(inputParam))

\* make(input): _bootInputs on every entry, in order
RECURSIVE make(_, _)
make(f, specs) ==
  IF specs = <<>> THEN f
  ELSE make(bootInputs(f, Head(specs).name, Head(specs).rules), Tail(specs))

\* remove(name)
remove(f, name) ==
  IF IndexOfInput(f.inputs, name) > 0
    THEN [f EXCEPT !.inputs = FilterOut(f.inputs, name)]
    ELSE f

\* The predicates given to with(): functions of the bound data.
Predicate(p, f) ==
  CASE p = "nameIs5" -> data_get(f.data, <<"name">>) = Str(<<"5">>)
    [] p = "hasProfile" -> data_get(f.data, <<"profile">>).k = "object"

\* new FormValidator(inputs, data, bag, config): setConfig registers an empty
\* 'form.validated' handler, then make(inputs) and mergeData(data).
NewFormValidator(specs, data) ==
  mergeData(
    make([inputs |-> <<>>, data |-> Obj(NoProps), wildcardPattern |-> <<>>,
          withCallbacks |-> <<>>,
          lifeCycleCallbacks |->
            [fails |-> <<>>, passes |-> <<>>, validated |-> <<"noop">>],
          emitOnPasses |-> TRUE, emitOnFails |-> TRUE], specs),
    data)

\* One entry of the record of an isValid() call.
Ev(kind, who, ret, thrown, failed) ==
  [kind |-> kind, who |-> who, ret |-> ret, thrown |-> thrown,
   failed |-> failed]

FailedRules(calls) ==
  {calls[i].rule : i \in {j \in 1..Len(calls) :
      calls[j].invoked /\ ~calls[j].threw /\ ~calls[j].passes}}

\* What one input.setValue(...) of the each() leaves: the input validated,
\* what it threw, and the entry of the call.
SetValueOf(st, i, r) ==
  [st EXCEPT !.f.inputs[i] = r.input,
             !.thrown = r.thrown,
             !.log = Append(st.log,
                Ev("setValue", st.f.inputs[i].param.name, r.ret, r.thrown,
                   FailedRules(r.calls)))]

\* this.each((input) => input.setValue(data_get(this._data, input.getName())))
RECURSIVE EachSetValue(_, _)
EachSetValue(st, i) ==
  IF st.thrown # <<>> \/ i > Len(st.f.inputs) THEN st
  ELSE EachSetValue(
         SetValueOf(st, i,
           setValue(st.f.inputs[i],
                    data_get(st.f.data, st.f.inputs[i].param.name))),
         i + 1)

\* What one input.valid() of the every() leaves.
ValidOf(st, i, r) ==
  [st EXCEPT !.f.inputs[i] = r.input,
             !.thrown = r.thrown,
             !.valid = r.ret,
             !.log = Append(st.log,
                Ev("valid", st.f.inputs[i].param.name, r.ret, r.thrown,
                   FailedRules(r.calls)))]

\* this.every((input) => input.valid()): stops at the first input that fails
RECURSIVE EveryValid(_, _)
EveryValid(st, i) ==
  IF st.thrown # <<>> \/ ~st.valid \/ i > Len(st.f.inputs) THEN st
  ELSE EveryValid(ValidOf(st, i, valid(st.f.inputs[i])), i + 1)

\* What one callback(this) of the every() leaves.
WithOf(st, p, res) ==
  [st EXCEPT !.withValid = res,
             !.log = Append(st.log, Ev("with", <<p>>, res, <<>>, {}))]

\* A variant that goes on after a predicate has returned false.
RECURSIVE EveryWithAll(_, _)
EveryWithAll(st, i) ==
  IF i > Len(st.f.withCallbacks) THEN st
  ELSE EveryWithAll(
         [WithOf(st, st.f.withCallbacks[i],
                 Predicate(st.f.withCallbacks[i], st.f))
            EXCEPT !.withValid =
              st.withValid /\ Predicate(st.f.withCallbacks[i], st.f)],
         i + 1)

\* this._withCallbacks.every((callback) => callback(this))
RECURSIVE EveryWith(_, _)
EveryWith(st, i) ==
  IF ~st.withValid \/ i > Len(st.f.withCallbacks) THEN st
  ELSE EveryWith(
         WithOf(st, st.f.withCallbacks[i],
                Predicate(st.f.withCallbacks[i], st.f)),
         i + 1)

\* _executeLifeCycleCallbacks(name): one entry per handler called
HandlerCalls(handlers, name) ==
  [i \in 1..Len(handlers) |-> Ev("handler", <<name, handlers[i]>>, TRUE, <<>>, {})]

\* A variant that runs the handlers whatever the latch says.
emitOnFailsEventUnlatched(st) ==
  [st EXCEPT !.log = st.log \o
                HandlerCalls(st.f.lifeCycleCallbacks.fails, "form.fails"),
             !.f.emitOnFails = FALSE,
             !.f.emitOnPasses = TRUE]

\* _emitOnFailsEvent()
emitOnFailsEvent(st) ==
  IF st.f.emitOnFails
    THEN [st EXCEPT !.log = st.log \o
                       HandlerCalls(st.f.lifeCycleCallbacks.fails, "form.fails"),
                    !.f.emitOnFails = FALSE,
                    !.f.emitOnPasses = TRUE]
    ELSE st

\* A variant that runs the handlers whatever the latch says.
emitOnPassesEventUnlatched(st) ==
  [st EXCEPT !.log = st.log \o
                HandlerCalls(st.f.lifeCycleCallbacks.passes, "form.passes"),
             !.f.emitOnPasses = FALSE,
             !.f.emitOnFails = TRUE]

\* _emitOnPassesEvent()
emitOnPassesEvent(st) ==
  IF st.f.emitOnPasses
    THEN [st EXCEPT !.log = st.log \o
                       HandlerCalls(st.f.lifeCycleCallbacks.passes, "form.passes"),
                    !.f.emitOnPasses = FALSE,
                    !.f.emitOnFails = TRUE]
    ELSE st

\* A variant that leaves the predicates out of the verdict.
formVerdictFieldsOnly(fieldsValid, withCallbacksValid) == fieldsValid

\* valid && withCallbacksValid
formVerdict(fieldsValid, withCallbacksValid) ==
  fieldsValid /\ withCallbacksValid

emitEvent(st) ==
  IF formVerdict(st.valid, st.withValid) THEN emitOnPassesEvent(st)
  ELSE emitOnFailsEvent(st)

\* lines 93-105: the predicates and the event, reached when no input threw
afterInputs(st) ==
  IF st.thrown # <<>> THEN st ELSE emitEvent(EveryWith(st, 1))

\* line 106: return valid && withCallbacksValid
isValidResult(st) ==
  [f |-> st.f, thrown |-> st.thrown,
   ret |-> st.thrown = <<>> /\ formVerdict(st.valid, st.withValid),
   log |-> st.log]

\* isValid(): the form after the call, the error thrown (<<>> when the call
\* returns), the value returned and the record of what the call did.
isValid(f) ==
  isValidResult(
    afterInputs(
      EveryValid(
        EachSetValue([f |-> f, thrown |-> <<>>, valid |-> TRUE,
                      withValid |-> TRUE, log |-> <<>>], 1), 1)))

\* transformToArray(input.errors, (err) => err): the messages getErrors()
\* holds, in the order of its keys, which is the order of the records.
RECURSIVE errorMessages(_)
errorMessages(ruleExecuted) ==
  IF ruleExecuted = <<>> THEN <<>>
  ELSE (IF Head(ruleExecuted).passed THEN <<>>
        ELSE <<IF Head(ruleExecuted).message = Null THEN Str(<<>>)
               ELSE Head(ruleExecuted).message>>)
       \o errorMessages(Tail(ruleExecuted))

\* A variant that takes the message of the last failed record.
firstErrorLast(input) ==
  IF errorMessages(input.validator.ruleExecuted) = <<>> THEN Undef
  ELSE errorMessages(input.validator.ruleExecuted)[
         Len(errorMessages(input.validator.ruleExecuted))]

\* transformToArray(input.errors, (err) => err)[0]
firstError(input) ==
  IF errorMessages(input.validator.ruleExecuted) = <<>> THEN Undef
  ELSE Head(errorMessages(input.validator.ruleExecuted))

\* What one t.fails() of failed() leaves, and the entry of errors for an
\* input that fails.
FailsOf(st, i, r) ==
  [st EXCEPT
     !.f.inputs[i] = r.input,
     !.thrown = r.thrown,
     !.errors = IF r.thrown = <<>> /\ ~r.ret
                  THEN [n \in (DOMAIN st.errors) \cup {r.input.param.name} |->
                          IF n = r.input.param.name THEN firstError(r.input)
                          ELSE st.errors[n]]
                  ELSE st.errors]

\* get errors(): failed() validates every input on the value it holds
RECURSIVE FailedFrom(_, _)
FailedFrom(st, i) ==
  IF st.thrown # <<>> \/ i > Len(st.f.inputs) THEN st
  ELSE FailedFrom(FailsOf(st, i, valid(st.f.inputs[i])), i + 1)

NoErrors == [n \in {} |-> Undef]

\* get errors(): the form after the call, the error thrown and the map
errors(f) == FailedFrom([f |-> f, thrown |-> <<>>, errors |-> NoErrors], 1)

\* destroy(), which clear() calls: every input is destroyed and the list
\* emptied.
clear(f) == [f EXCEPT !.inputs = <<>>]

\* copy(), lines 459-461: the inputs of the form are given to the new form
\* one by one.
RECURSIVE copyInputs(_, _)
copyInputs(f, inputs) ==
  IF inputs = <<>> THEN f
  ELSE copyInputs(addInput(f, Head(inputs)), Tail(inputs))

\* copy(): a new form on the same data, with the inputs of this one.
copy(f) == copyInputs(NewFormValidator(<<>>, f.data), f.inputs)

\* with(callback)
with(f, callback) ==
  [f EXCEPT !.withCallbacks = Append(f.withCallbacks, callback)]

\* on(e, fn): _addLifeCycleCallback
on(f, e, fn) ==
  [f EXCEPT !.lifeCycleCallbacks =
     CASE e = "form.fails" ->
            [f.lifeCycleCallbacks EXCEPT !.fails = Append(@, fn)]
       [] e = "form.passes" ->
            [f.lifeCycleCallbacks EXCEPT !.passes = Append(@, fn)]
       [] e = "form.validated" ->
            [f.lifeCycleCallbacks EXCEPT !.validated = Append(@, fn)]]

(***************************************************************************)
(* The engine on its own: one Validation with a chain given at set-up, then *)
(* any sequence of value assignments, validate() calls and failsOnFirst     *)
(* assignments.                                                             *)
(***************************************************************************)
VARIABLES eng, last, form, flast

vars == <<eng, last, form, flast>>

\* The chain entries the model draws from: the rule named "nope" is not in
\* the bag, and min:x has a bound that is not a number.
RulePool ==
  {Rule("required", Undef, Null),
   Rule("nullable", Undef, Null),
   Rule("number", Undef, Null),
   Rule("min", Str(<<"3">>), Null),
   Rule("min", Str(<<"x">>), Null),
   Rule("nope", Undef, Null)}

ValuePool ==
  {Null, Undef, Str(<<>>), Str(<<"5">>), Str(<<"a", "b">>), Num(2)}

DistinctNames(rules) ==
  \A i, j \in 1..Len(rules) : rules[i].name = rules[j].name => i = j

Chains ==
  {c \in UNION {[1..n -> RulePool] : n \in 0..MaxRules} : DistinctNames(c)}

NoCall ==
  [called |-> FALSE, raw |-> Undef, failOnfirst |-> TRUE, thrown |-> <<>>,
   ret |-> TRUE, calls |-> <<>>]

Called(e, r) ==
  [called |-> TRUE, raw |-> e.value, failOnfirst |-> e.failOnfirst,
   thrown |-> r.thrown, ret |-> r.ret, calls |-> r.calls]

\* The record of the isValid() call just made; prev is the verdict of the
\* isValid() call that returned before it.
NoVerdict == [called |-> FALSE, ret |-> TRUE]

NoFormCall ==
  [called |-> FALSE, thrown |-> <<>>, ret |-> TRUE, log |-> <<>>,
   prev |-> NoVerdict]

Init ==
  /\ \E c \in Chains : eng = NewValidation(c, <<>>)
  /\ last = NoCall
  /\ form = NewFormValidator(<<>>, Obj(NoProps))
  /\ flast = NoFormCall

\* A validate() call on engine e that left r.
ValidateCall(e, r) ==
  /\ eng' = r.eng
  /\ last' = Called(e, r)
  /\ UNCHANGED <<form, flast>>

\* set value(v): this._value = v; this.validate()
SetValue(v) ==
  ValidateCall([eng EXCEPT !.value = v], validate([eng EXCEPT !.value = v]))

\* validate() called directly
Validate == ValidateCall(eng, validate(eng))

\* set failsOnFirst(fails)
SetFailsOnFirst(fails) ==
  /\ eng.failOnfirst # fails
  /\ eng' = [eng EXCEPT !.failOnfirst = fails]
  /\ UNCHANGED <<last, form, flast>>

Next ==
  \/ \E v \in ValuePool : SetValue(v)
  \/ Validate
  \/ \E b \in BOOLEAN : SetFailsOnFirst(b)

Spec == Init /\ [][Next]_vars

(***************************************************************************)
(* The engine's claims                                                      *)
(***************************************************************************)
ChainNames == [i \in 1..Len(eng.rules) |-> eng.rules[i].name]

ExecutedNames ==
  [i \in 1..Len(eng.ruleExecuted) |-> eng.ruleExecuted[i].ruleName]

AllDefined == \A i \in 1..Len(eng.rules) : eng.rules[i].validate # "undefined"

RecordOf(r) == eng.ruleExecuted[IndexOfRecord(eng.ruleExecuted, r)]

Returned == last.called /\ last.thrown = <<>>

\* C1: after a validate() that returns, made with failsOnFirst = false on a
\* chain of distinctly named rules whose callbacks are all defined, the names
\* of the executed records are the names of the chain, in declaration order,
\* whatever passed or failed.
C1_OrderPreserved ==
  (Returned /\ ~last.failOnfirst /\ AllDefined /\ DistinctNames(eng.rules))
    => ExecutedNames = ChainNames

C1_Witness ==
  /\ Returned /\ ~last.failOnfirst /\ AllDefined
  /\ Len(eng.rules) = 3
  /\ ExecutedNames = ChainNames
  /\ \E i, j \in 1..3 :
       eng.ruleExecuted[i].passed /\ ~eng.ruleExecuted[j].passed

FailedCalls ==
  {i \in 1..Len(last.calls) : last.calls[i].invoked /\ ~last.calls[i].passes}

FirstFailed == CHOOSE i \in FailedCalls : \A j \in FailedCalls : i <= j

\* C2: after a validate() made with failsOnFirst = true in which rule i is
\* the first to fail, the executed records are those of rules 1..i only: no
\* record of a rule declared after rule i is in the list.
C2_FailFastTruncation ==
  (Returned /\ last.failOnfirst /\ FailedCalls # {})
    => \A k \in 1..Len(eng.ruleExecuted) :
         \E j \in 1..FirstFailed : ChainNames[j] = ExecutedNames[k]

EmptyValues == {Null, Str(<<>>), Undef}

\* The latch is set when iteration j starts: an earlier rule named nullable
\* was invoked on null, '' or undefined and passed.
LatchedAt(j) ==
  \E b \in 1..(j - 1) :
    /\ last.calls[b].rule = "nullable"
    /\ last.calls[b].invoked /\ last.calls[b].passes
    /\ last.calls[b].value \in EmptyValues

\* C3: in one validate() pass, once the rule named nullable has passed on
\* null, '' or undefined, every later rule of the chain gets a record with
\* passed and run true and its callback is not invoked; when nullable was
\* given any other value, the rules the pass reaches are invoked.
C3_NullableLatch ==
  last.called =>
    /\ \A j \in 1..Len(last.calls) :
         IF LatchedAt(j)
           THEN /\ ~last.calls[j].invoked
                /\ RecordOf(last.calls[j].rule).passed
                /\ RecordOf(last.calls[j].rule).run
           ELSE last.calls[j].invoked
    /\ (\E j \in 1..Len(last.calls) : LatchedAt(j + 1))
         => (last.thrown = <<>> /\ Len(last.calls) = Len(eng.rules))

C3_Witness ==
  /\ last.called /\ last.raw = Null
  /\ ChainNames = <<"nullable", "number", "min">>
  /\ Len(last.calls) = 3
  /\ ~last.calls[2].invoked /\ ~last.calls[3].invoked
  /\ RecordOf("number").passed /\ RecordOf("min").passed

C3_WitnessNotLatched ==
  /\ last.called /\ last.raw = Str(<<"a", "b">>)
  /\ Len(last.calls) = 2
  /\ last.calls[1].rule = "nullable" /\ last.calls[1].invoked
  /\ last.calls[2].invoked /\ ~last.calls[2].passes

\* The type returned by the most recent rule before j that returned one,
\* the engine's input type when none did.
MostRecentType(j) ==
  LET typed == {h \in 1..(j - 1) : last.calls[h].rtype # NoneT} IN
  IF typed = {} THEN eng.inputType
  ELSE last.calls[CHOOSE h \in typed : \A g \in typed : g <= h].rtype

NumberThenMin3On5 ==
  /\ last.called /\ last.raw = Str(<<"5">>)
  /\ ChainNames = <<"number", "min">>
  /\ eng.rules[2].params = Str(<<"3">>)

\* C4: in one validate() pass every callback after the first is invoked with
\* the value the previous callback returned and with the type returned by
\* the most recent rule that returned one; for [number, min:3] on the string
\* "5", min is invoked with the number 5 and its record's valueTested is
\* the number 5.
C4_CoercionHandOff ==
  /\ last.called =>
       \A j \in 1..Len(last.calls) :
         last.calls[j].invoked =>
           /\ last.calls[j].value =
                IF j = 1 THEN last.raw ELSE last.calls[j - 1].returned
           /\ last.calls[j].type = MostRecentType(j)
  /\ NumberThenMin3On5 =>
       /\ Len(last.calls) = 2 /\ last.calls[2].invoked
       /\ last.calls[2].value = Num(5)
       /\ last.calls[2].type = "number"
       /\ RecordOf("min").valueTested = Num(5)

C4_Witness ==
  /\ NumberThenMin3On5
  /\ last.calls[2].value = Num(5)
  /\ last.calls[2].value # last.raw
  /\ RecordOf("min").passed

NotDefined(i) == <<"The rule ", eng.rules[i].name, " is not defined">>

\* C5: when an entry of the chain has no callback, validate() throws the
\* error naming that rule, whatever the value and the failsOnFirst setting.
C5_UnknownRuleThrows ==
  (last.called /\ ~AllDefined)
    => \E i \in 1..Len(eng.rules) :
         eng.rules[i].validate = "undefined" /\ last.thrown = NotDefined(i)

\* The iterations of the last pass whose callback failed and returned an
\* alias, for a rule declared without a message of its own.
AliasedFailures ==
  {j \in 1..Len(last.calls) :
     /\ last.calls[j].invoked /\ ~last.calls[j].threw
     /\ ~last.calls[j].passes /\ last.calls[j].alias # NoneT
     /\ eng.rules[j].message = Null}

\* C16: when the callback of a rule declared without a message fails and
\* returns an alias, the rule's record keeps the declared rule name, its
\* message is the catalog entry of the alias rendered with the rule's
\* parameters, and getErrors() holds that message under the declared name.
C16_AliasMessage ==
  last.called =>
    \A j \in AliasedFailures :
      LET rule == eng.rules[j] IN
      /\ RecordOf(rule.name).ruleName = rule.name
      /\ RecordOf(rule.name).orignalName = rule.name
      /\ RecordOf(rule.name).message
           = Str(parseMessage(eng.attr, getRuleMessage(last.calls[j].alias),
                              rule.params))
      /\ rule.name \in DOMAIN getErrors(eng)
      /\ getErrors(eng)[rule.name] = RecordOf(rule.name).message.s
      /\ (last.calls[j].alias \in DOMAIN getErrors(eng))
           => \E i \in 1..Len(eng.rules) :
                eng.rules[i].name = last.calls[j].alias

C16_Witness ==
  /\ last.called /\ last.raw = Str(<<"a", "b">>)
  /\ AliasedFailures = {1}
  /\ eng.rules[1].name = "min" /\ last.calls[1].alias = "minlength"
  /\ RecordOf("min").message
       = Str(<<"The minimum number of allowed characters is: ", "3">>)
  /\ RecordOf("min").message
       # Str(parseMessage(eng.attr, getRuleMessage("min"), Str(<<"3">>)))

(***************************************************************************)
(* The engine with rules declared with and without a message of their own. *)
(***************************************************************************)
MessageRulePool ==
  {Rule("min", Str(<<"3">>), Null),
   Rule("min", Str(<<"3">>), Str(<<"At least ", ":arg0">>)),
   Rule("min", Str(<<"3">>), Str(getRuleMessage("min"))),
   Rule("required", Undef, Null),
   Rule("required", Undef, Str(<<"Needed">>)),
   Rule("custom", Undef, Null),
   Rule("custom", Undef, Str(<<"Not a number">>))}

MessageChains ==
  {c \in UNION {[1..n -> MessageRulePool] : n \in 1..MaxRules} :
     DistinctNames(c)}

MessageValuePool == {Str(<<>>), Str(<<"a", "b">>), Str(<<"5">>), Num(2)}

MessageInit ==
  /\ \E c \in MessageChains : eng = NewValidation(c, <<>>)
  /\ last = NoCall
  /\ form = NewFormValidator(<<>>, Obj(NoProps))
  /\ flast = NoFormCall

MessageNext ==
  \/ \E v \in MessageValuePool : SetValue(v)
  \/ Validate
  \/ \E b \in BOOLEAN : SetFailsOnFirst(b)

SpecMessage == MessageInit /\ [][MessageNext]_vars

FailedIterations ==
  {j \in 1..Len(last.calls) :
     last.calls[j].invoked /\ ~last.calls[j].threw /\ ~last.calls[j].passes}

\* The catalog's entry for a rule name, its generic entry when it has none.
CatalogEntry(rule) ==
  IF rule \in DOMAIN en_messages THEN en_messages[rule]
  ELSE en_messages["default"]

\* The message declared with rule j is used: one is given and it is not the
\* catalog's message for the declared name.
OverrideUsed(j) ==
  /\ eng.rules[j].message.k = "string" /\ eng.rules[j].message.s # <<>>
  /\ eng.rules[j].message.s # CatalogEntry(eng.rules[j].name)

\* C17: the message of a failing rule is rendered from the message declared
\* with the rule when one is given and differs from the catalog's message
\* for the declared name; otherwise from the catalog's entry for the alias
\* the callback returned, or for the declared name when it returned none,
\* and from the catalog's generic entry when the catalog has no such entry.
C17_MessageResolutionOrder ==
  last.called =>
    \A j \in FailedIterations :
      RecordOf(eng.rules[j].name).message =
        Str(parseMessage(eng.attr,
              IF OverrideUsed(j) THEN eng.rules[j].message.s
              ELSE IF last.calls[j].alias # NoneT
                THEN CatalogEntry(last.calls[j].alias)
              ELSE CatalogEntry(eng.rules[j].name),
              eng.rules[j].params))

C17_Witness ==
  /\ last.called /\ ~last.failOnfirst /\ last.raw = Str(<<"a", "b">>)
  /\ FailedIterations = {1, 2}
  /\ eng.rules[1].name = "min" /\ OverrideUsed(1)
  /\ last.calls[1].alias = "minlength"
  /\ RecordOf("min").message = Str(<<"At least ", "3">>)
  /\ eng.rules[2].name = "custom" /\ ~OverrideUsed(2)
  /\ RecordOf("custom").message = Str(<<"This field is invalid">>)

C17_WitnessCatalogCopy ==
  /\ last.called /\ last.raw = Str(<<"a", "b">>)
  /\ eng.rules[1].message = Str(getRuleMessage("min"))
  /\ 1 \in FailedIterations
  /\ RecordOf("min").message
       = Str(<<"The minimum number of allowed characters is: ", "3">>)

(***************************************************************************)
(* A form of literal fields: it is built empty, with one form.fails and one *)
(* form.passes handler, then fields are added and removed, data bound,      *)
(* predicates registered and isValid() called, in any order.                *)
(***************************************************************************)
FieldPool ==
  {InputParms(<<"name">>, <<Rule("required", Undef, Null)>>, TRUE),
   InputParms(<<"name">>, <<Rule("number", Undef, Null),
                            Rule("min", Str(<<"x">>), Null)>>, TRUE),
   InputParms(<<"profile", "age">>,
              <<Rule("number", Undef, Null),
                Rule("min", Str(<<"3">>), Null)>>, TRUE)}

FormDataPool ==
  {Obj(NoProps),
   Obj([name |-> Str(<<>>)]),
   Obj([name |-> Str(<<"5">>)]),
   Obj([profile |-> Obj([age |-> Str(<<"5">>)])]),
   Obj([profile |-> Obj([age |-> Num(2)])]),
   Obj([profile |-> Str(<<"5">>)])}

PredicatePool == {"nameIs5", "hasProfile"}

\* What an operation other than isValid() leaves of the record of the last
\* isValid() call: the verdict it returned, if it returned one.
Verdict(fl) ==
  IF fl.called /\ fl.thrown = <<>> THEN [called |-> TRUE, ret |-> fl.ret]
  ELSE fl.prev

Forget(fl) == [NoFormCall EXCEPT !.prev = Verdict(fl)]

FormInit ==
  /\ eng = NewValidation(<<>>, <<>>)
  /\ last = NoCall
  /\ form = on(on(NewFormValidator(<<>>, Obj(NoProps)), "form.fails", "h1"),
               "form.passes", "h2")
  /\ flast = NoFormCall

\* make({name: rules})
Make(spec) ==
  /\ form' = make(form, <<spec>>)
  /\ flast' = Forget(flast)
  /\ UNCHANGED <<eng, last>>

Remove(name) ==
  /\ IndexOfInput(form.inputs, name) > 0
  /\ form' = remove(form, name)
  /\ flast' = Forget(flast)
  /\ UNCHANGED <<eng, last>>

SetData(data) ==
  /\ form' = setData(form, data)
  /\ flast' = Forget(flast)
  /\ UNCHANGED <<eng, last>>

MergeData(data) ==
  /\ form' = mergeData(form, data)
  /\ flast' = Forget(flast)
  /\ UNCHANGED <<eng, last>>

With(p) ==
  /\ Len(form.withCallbacks) < MaxPredicates
  /\ form' = with(form, p)
  /\ flast' = Forget(flast)
  /\ UNCHANGED <<eng, last>>

IsValidCall(r) ==
  /\ form' = r.f
  /\ flast' = [called |-> TRUE, thrown |-> r.thrown, ret |-> r.ret,
                log |-> r.log, prev |-> Verdict(flast)]
  /\ UNCHANGED <<eng, last>>

IsValid == IsValidCall(isValid(form))

FormNext ==
  \/ \E spec \in FieldPool : Make(spec)
  \/ \E i \in 1..Len(form.inputs) : Remove(form.inputs[i].param.name)
  \/ \E d \in FormDataPool : SetData(d)
  \/ \E d \in FormDataPool : MergeData(d)
  \/ \E p \in PredicatePool : With(p)
  \/ IsValid

SpecForm == FormInit /\ [][FormNext]_vars

(***************************************************************************)
(* A form of wildcard templates: templates and literal fields are declared, *)
(* data is bound and merged, fields are removed and the form is validated.  *)
(* The record of a setData or mergeData call keeps what the form was like   *)
(* when the call was made.                                                  *)
(***************************************************************************)
TemplatePool ==
  {InputParms(<<"users", "*">>, <<Rule("required", Undef, Null)>>, TRUE),
   InputParms(<<"users", "*">>,
              <<Rule("number", Undef, Null),
                Rule("min", Str(<<"3">>), Null)>>, TRUE),
   InputParms(<<"users", "*", "name">>,
              <<Rule("required", Undef, Null)>>, TRUE)}

WildFieldPool ==
  {InputParms(<<"users", "a">>, <<Rule("nullable", Undef, Null)>>, TRUE)}

WildDataPool ==
  {Obj(NoProps),
   Obj([users |-> Obj([a |-> Str(<<"5">>)])]),
   Obj([users |-> Obj([a |-> Num(2)])]),
   Obj([users |-> Obj([a |-> Str(<<>>), b |-> Str(<<"5">>)])]),
   Obj([users |-> Obj([b |-> Num(2)])]),
   Obj([users |-> Obj([a |-> Obj([name |-> Str(<<"5">>)])])]),
   Obj([users |-> Str(<<"5">>)]),
   Obj([users |-> Null])}

Names(f) == {f.inputs[i].param.name : i \in 1..Len(f.inputs)}

\* The keys template w of form f expands to over the data of f.
ExpansionKeys(f, w) ==
  LET data == data_get(f.data, WildcardPrefix(f.wildcardPattern[w].name)) IN
  IF data.k = "object" THEN ObjectKeys(data) ELSE <<>>

\* The field names the templates of f expand to over the data of f.
ExpansionNames(f) ==
  UNION {{Append(WildcardPrefix(f.wildcardPattern[w].name),
                 ExpansionKeys(f, w)[i]) : i \in 1..Len(ExpansionKeys(f, w))} :
         w \in 1..Len(f.wildcardPattern)}

DataCall(f, g) ==
  [NoFormCall EXCEPT
     !.prev = Verdict(flast),
     !.log = <<[kind |-> "data",
                names |-> Names(f), count |-> Len(f.inputs),
                expanded |-> ExpansionNames(f) \subseteq Names(f),
                sameShape |-> ExpansionNames(f) = ExpansionNames(g)]>>]

WildInit ==
  /\ eng = NewValidation(<<>>, <<>>)
  /\ last = NoCall
  /\ form = NewFormValidator(<<>>, Obj(NoProps))
  /\ flast = NoFormCall

\* The record of a make() of a template: what the form was like before it.
TemplateCall(f, g) == [DataCall(f, g) EXCEPT !.log[1].kind = "make"]

\* make({'users.*': rules})
MakeTemplate(spec) ==
  /\ Len(form.wildcardPattern) < MaxTemplates
  /\ form' = make(form, <<spec>>)
  /\ flast' = TemplateCall(form, form')
  /\ UNCHANGED <<eng, last>>

WildSetData(data) ==
  /\ form' = setData(form, data)
  /\ flast' = DataCall(form, form')
  /\ UNCHANGED <<eng, last>>

WildMergeData(data) ==
  /\ form' = mergeData(form, data)
  /\ flast' = DataCall(form, form')
  /\ UNCHANGED <<eng, last>>

\* The record of an addInput() call: the input given, the old input of its
\* name as the call leaves it, and what the form was like before the call.
AddInputCall(f, inputInstance) ==
  [NoFormCall EXCEPT
     !.prev = Verdict(flast),
     !.log = <<[kind |-> "addInput", given |-> inputInstance,
                destroyed |-> destroyedBy(f, inputInstance),
                names |-> Names(f), count |-> Len(f.inputs)]>>]

\* addInput(new InputValidator(bag, params))
AddInput(params) ==
  /\ form' = addInput(form, NewInputValidator(params))
  /\ flast' = AddInputCall(form, NewInputValidator(params))
  /\ UNCHANGED <<eng, last>>

WildNext ==
  \/ \E spec \in TemplatePool : MakeTemplate(spec)
  \/ \E spec \in WildFieldPool : AddInput(spec)
  \/ \E spec \in WildFieldPool : Make(spec)
  \/ \E i \in 1..Len(form.inputs) : Remove(form.inputs[i].param.name)
  \/ \E d \in WildDataPool : WildSetData(d)
  \/ \E d \in WildDataPool : WildMergeData(d)
  \/ IsValid

SpecWild == WildInit /\ [][WildNext]_vars

(***************************************************************************)
(* A form whose error map is read: fields are added, with either failure    *)
(* policy, data is bound, the form is validated and form.errors is read.    *)
(***************************************************************************)
ErrorFieldPool ==
  {InputParms(<<"name">>, <<Rule("required", Undef, Null)>>, TRUE),
   InputParms(<<"name">>, <<Rule("number", Undef, Null),
                            Rule("min", Str(<<"3">>), Null)>>, FALSE),
   InputParms(<<"profile", "age">>,
              <<Rule("number", Undef, Null),
                Rule("min", Str(<<"3">>), Null)>>, TRUE)}

ErrorDataPool ==
  {Obj(NoProps),
   Obj([name |-> Str(<<>>)]),
   Obj([name |-> Str(<<"a", "b">>)]),
   Obj([name |-> Str(<<"5">>), profile |-> Obj([age |-> Num(2)])]),
   Obj([profile |-> Obj([age |-> Str(<<"5">>)])])}

ErrorsCall(r) ==
  /\ form' = r.f
  /\ flast' = [NoFormCall EXCEPT
                 !.prev = Verdict(flast),
                 !.log = <<[kind |-> "errors", thrown |-> r.thrown,
                            errors |-> r.errors]>>]
  /\ UNCHANGED <<eng, last>>

\* form.errors
Errors == ErrorsCall(errors(form))

ErrorsNext ==
  \/ \E params \in ErrorFieldPool : AddInput(params)
  \/ \E d \in ErrorDataPool : SetData(d)
  \/ IsValid
  \/ Errors

SpecErrors == WildInit /\ [][ErrorsNext]_vars

(***************************************************************************)
(* Local: the message source.  The catalogs en_messages and fr_messages are *)
(* objects of their modules; a Local instance holds, per language, either a *)
(* reference to one of them or a catalog object of its own.                 *)
(***************************************************************************)
fr_messages ==
  [default |-> <<"Ce champ est invalide">>,
   required |-> <<"Ce champ est obligatoire">>,
   minlength |-> <<"Le nombre minimum de caracteres requis est : ", ":arg0">>,
   min |-> <<"Le champ ", ":field", " doit etre superieur ou egal a '",
             ":arg0", "'">>,
   number |-> <<"Ce champ doit etre un nombre">>,
   nullable |-> <<>>]

\* An argument left out, and the null of _useLang.
NoLang == "(undefined)"

\* a ?? b
Coalesce(a, b) == IF a # NoLang THEN a ELSE b

ModuleRef(name) == [module |-> name, own |-> NoProps]
OwnRef(messages) == [module |-> "", own |-> messages]

\* constructor: LANG is 'en', _useLang is null and _message refers to the two
\* module objects.
NewLocal ==
  [useLang |-> NoLang,
   message |-> [en |-> ModuleRef("en_messages"),
                fr |-> ModuleRef("fr_messages")]]

\* The module objects as they are when the modules are loaded, and a Local
\* constructed then.
LoadedModules ==
  [modules |-> [en_messages |-> en_messages, fr_messages |-> fr_messages],
   trLocal |-> NewLocal]

\* The object a reference of _message leads to.
Deref(w, ref) == IF ref.module # "" THEN w.modules[ref.module] ELSE ref.own

\* getMessages: the language of _message whose object is returned, the
\* default language when the asked one has no catalog.
getMessages(w, lang) ==
  LET asked == Coalesce(lang, Coalesce(w.trLocal.useLang, "en"))
  IN IF asked \in DOMAIN w.trLocal.message THEN asked ELSE "en"

MessagesOf(w, lang) == Deref(w, w.trLocal.message[getMessages(w, lang)])

\* messages[rule] with no fallback.
RuleMessageInNoDefault(messages, rule) ==
  IF rule \in DOMAIN messages THEN Str(messages[rule]) ELSE Undef

\* messages[rule] ?? messages['default']
RuleMessageIn(messages, rule) ==
  IF rule \in DOMAIN messages THEN Str(messages[rule])
  ELSE IF "default" \in DOMAIN messages THEN Str(messages["default"])
  ELSE Undef

\* Local.getRuleMessage(rule, local)
LocalGetRuleMessage(w, rule, lang) == RuleMessageIn(MessagesOf(w, lang), rule)

\* messages[rule] = message
PutRule(messages, rule, message) ==
  [x \in DOMAIN messages \cup {rule} |->
     IF x = rule THEN message ELSE messages[x]]

\* {...existing, ...messages}
MergeMessages(existing, messages) ==
  [x \in DOMAIN existing \cup DOMAIN messages |->
     IF x \in DOMAIN messages THEN messages[x] ELSE existing[x]]

\* messages[rule] = message on the object getMessages returned: the object
\* itself is written, be it the instance's own or a module's.
AssignRule(w, slot, rule, message) ==
  IF w.trLocal.message[slot].module # ""
  THEN [w EXCEPT !.modules[w.trLocal.message[slot].module] =
                   PutRule(@, rule, message)]
  ELSE [w EXCEPT !.trLocal.message[slot] =
                   OwnRef(PutRule(@.own, rule, message))]

\* this._message[lang] = messages
SetCatalog(w, lang, messages) ==
  [w EXCEPT !.trLocal.message =
     [l \in DOMAIN @ \cup {lang} |->
        IF l = lang THEN OwnRef(messages) ELSE @[l]]]

LocalDone(w) == [w |-> w, thrown |-> FALSE]
LocalThrown(w) == [w |-> w, thrown |-> TRUE]

\* putMessages: the merge goes to the given language, to the default language
\* when none is given.
putMessages(w, messages, lang) ==
  IF DOMAIN messages = {} THEN LocalThrown(w)
  ELSE LocalDone(SetCatalog(w, Coalesce(lang, "en"),
         MergeMessages(IF Coalesce(lang, "en") \in DOMAIN w.trLocal.message
                       THEN Deref(w, w.trLocal.message[Coalesce(lang, "en")])
                       ELSE NoProps,
                       messages)))

\* addMessage, lines 36-38, once the object of line 36 is written.
putAssigned(w, slot, lang) ==
  putMessages(w, Deref(w, w.trLocal.message[slot]), lang)

\* addMessage: nothing for a falsy message.
addMessage(w, rule, message, lang) ==
  IF message = Undef \/ message = Str(<<>>) THEN LocalDone(w)
  ELSE putAssigned(AssignRule(w, getMessages(w, lang), rule, message.s),
                   getMessages(w, lang), lang)

translate(w, lang, messages) ==
  IF lang = "" THEN LocalThrown(w)
  ELSE LocalDone(SetCatalog(w, lang,
                            MergeMessages(MessagesOf(w, lang), messages)))

rewrite(w, lang, rule, message) == addMessage(w, rule, message, lang)

RECURSIVE rewriteFrom(_, _, _, _, _)
rewriteFrom(w, lang, rules, messages, i) ==
  IF i > Len(rules) THEN LocalDone(w)
  ELSE rewriteFrom(rewrite(w, lang, rules[i], messages[i]).w,
                   lang, rules, messages, i + 1)

rewriteMany(w, lang, rules, messages) ==
  IF lang = "" \/ Len(rules) # Len(messages) THEN LocalThrown(w)
  ELSE rewriteFrom(w, lang, rules, messages, 1)

local(w, lang) ==
  IF lang = "" THEN LocalThrown(w)
  ELSE LocalDone([w EXCEPT !.trLocal.useLang = lang])

getLocal(w) == Coalesce(w.trLocal.useLang, "en")

(***************************************************************************)
(* The message source driven through its methods.  In this specification   *)
(* eng holds the module objects and the Local instance in use, and last   *)
(* the method called last, with the rule keys it was given.               *)
(***************************************************************************)
LocalRules == {"required"}
LocalLangs == {"en", "fr", "es"}
LocalMessages == {Str(<<"Custom">>), Undef}
LocalCatalogs == {[required |-> <<"Custom">>]}

LocalInit ==
  /\ eng = LoadedModules
  /\ last = [op |-> "new", rules |-> {}, thrown |-> FALSE]
  /\ form = NewFormValidator(<<>>, Obj(NoProps))
  /\ flast = NoFormCall

LocalCall(op, rules, r) ==
  /\ eng' = r.w
  /\ last' = [op |-> op, rules |-> rules, thrown |-> r.thrown]
  /\ UNCHANGED <<form, flast>>

\* new Local(): the module objects are as the calls before left them.
NewInstance ==
  LocalCall("new", {}, LocalDone([eng EXCEPT !.trLocal = NewLocal]))

AddMessage(rule, message, lang) ==
  LocalCall("addMessage", {rule}, addMessage(eng, rule, message, lang))

PutMessages(messages, lang) ==
  LocalCall("putMessages", DOMAIN messages, putMessages(eng, messages, lang))

Translate(lang, messages) ==
  LocalCall("translate", DOMAIN messages, translate(eng, lang, messages))

Rewrite(lang, rule, message) ==
  LocalCall("rewrite", {rule}, rewrite(eng, lang, rule, message))

RewriteMany(lang, rules, messages) ==
  LocalCall("rewriteMany", {rules[i] : i \in 1..Len(rules)},
            rewriteMany(eng, lang, rules, messages))

SetLocal(lang) == LocalCall("local", {}, local(eng, lang))

LocalNext ==
  \/ NewInstance
  \/ \E rule \in LocalRules, message \in LocalMessages,
        lang \in LocalLangs \cup {NoLang} : AddMessage(rule, message, lang)
  \/ \E messages \in LocalCatalogs \cup {NoProps},
        lang \in LocalLangs \cup {NoLang} : PutMessages(messages, lang)
  \/ \E lang \in LocalLangs \cup {""}, messages \in LocalCatalogs :
        Translate(lang, messages)
  \/ \E lang \in LocalLangs, rule \in LocalRules, message \in LocalMessages :
        Rewrite(lang, rule, message)
  \/ \E lang \in LocalLangs,
        messages \in {<<Str(<<"Custom">>), Str(<<"Custom">>)>>,
                      <<Str(<<"Custom">>)>>} :
        RewriteMany(lang, <<"required", "customRule">>, messages)
  \/ \E lang \in LocalLangs \cup {""} : SetLocal(lang)

SpecLocal == LocalInit /\ [][LocalNext]_vars

(***************************************************************************)
(* Messages.parseMessage applied to templates, attributes and parameters:   *)
(* last holds the arguments of the call and the text it returned.           *)
(***************************************************************************)
ParseTemplates ==
  {en_messages["min"],
   <<"The ", ":field", " field must be between in ", ":arg0", " and ",
     ":arg1">>,
   <<"The ", ":field", " field must be one of ", "...arg">>,
   <<":arg0", " or ", ":arg0", " of ", ":field", ", ", ":field">>,
   <<":arg1", " before ", ":arg0", " and ", ":arg2">>}

ParseParams ==
  {Undef, Num(3), Str(<<"18">>), Str(<<"18", ",", "30">>),
   Str(<<"18", ",">>), Str(<<":arg1", ",", "30">>),
   Str(<<":field", ",", "30">>)}

ParseAttributes == {<<"age">>, <<"profile", ".", "age">>, <<>>}

NoParse == [called |-> FALSE, attribute |-> <<>>, message |-> <<>>,
            oParams |-> Undef, ret |-> <<>>]

ParseInit ==
  /\ eng = NewValidation(<<>>, <<>>)
  /\ last = NoParse
  /\ form = NewFormValidator(<<>>, Obj(NoProps))
  /\ flast = NoFormCall

ParseMessage(attribute, message, oParams) ==
  /\ last' = [called |-> TRUE, attribute |-> attribute, message |-> message,
              oParams |-> oParams,
              ret |-> parseMessage(attribute, message, oParams)]
  /\ UNCHANGED <<eng, form, flast>>

ParseNext ==
  \E attribute \in ParseAttributes, message \in ParseTemplates,
     oParams \in ParseParams : ParseMessage(attribute, message, oParams)

SpecParse == ParseInit /\ [][ParseNext]_vars

(***************************************************************************)
(* A form whose handlers are registered at any time: before the first       *)
(* isValid(), after one that returned true, after one that returned false.  *)
(* A handler is named after the time it is registered at.                   *)
(***************************************************************************)
EventFieldPool ==
  {InputParms(<<"name">>, <<Rule("required", Undef, Null)>>, TRUE),
   InputParms(<<"name">>, <<Rule("number", Undef, Null),
                            Rule("min", Str(<<"x">>), Null)>>, TRUE)}

EventDataPool ==
  {Obj(NoProps), Obj([name |-> Str(<<>>)]), Obj([name |-> Str(<<"5">>)])}

GroupHooks == {"form.fails", "form.passes", "form.validated"}

HandlerName(fl) ==
  IF ~Verdict(fl).called THEN "atStart"
  ELSE IF Verdict(fl).ret THEN "afterPasses" ELSE "afterFails"

HandlersOf(f, e) ==
  CASE e = "form.fails" -> f.lifeCycleCallbacks.fails
    [] e = "form.passes" -> f.lifeCycleCallbacks.passes
    [] e = "form.validated" -> f.lifeCycleCallbacks.validated

\* on(e, fn), which onFails, onPasses and onValidate call
On(e) ==
  /\ \A i \in 1..Len(HandlersOf(form, e)) :
       HandlersOf(form, e)[i] # HandlerName(flast)
  /\ form' = on(form, e, HandlerName(flast))
  /\ flast' = Forget(flast)
  /\ UNCHANGED <<eng, last>>

EventsNext ==
  \/ \E spec \in EventFieldPool : Make(spec)
  \/ \E d \in EventDataPool : SetData(d)
  \/ \E e \in GroupHooks : On(e)
  \/ IsValid

SpecEvents == WildInit /\ [][EventsNext]_vars

(***************************************************************************)
(* A form and its copy.  In this specification form holds the two forms, a *)
(* the original and b the copy, and the names of the InputValidator objects *)
(* that are in both: copy() hands the objects over, so what one form does   *)
(* to such an object is done to the input of the other form too.  flast     *)
(* holds the method called last and the form it was called on.              *)
(***************************************************************************)
CopyFieldPool ==
  {InputParms(<<"name">>, <<Rule("required", Undef, Null)>>, TRUE),
   InputParms(<<"age">>, <<Rule("number", Undef, Null),
                           Rule("min", Str(<<"3">>), Null)>>, TRUE)}

CopyDataPool ==
  {Obj(NoProps),
   Obj([name |-> Str(<<>>), age |-> Num(2)]),
   Obj([name |-> Str(<<"5">>), age |-> Str(<<"5">>)])}

Sides == {"a", "b"}
Other(side) == IF side = "a" THEN "b" ELSE "a"

CopyInit ==
  /\ eng = NewValidation(<<>>, <<>>)
  /\ last = NoCall
  /\ form = [a |-> NewFormValidator(<<>>, Obj(NoProps)),
             b |-> NewFormValidator(<<>>, Obj(NoProps)),
             shared |-> {}, copied |-> FALSE]
  /\ flast = [op |-> "new", side |-> "a"]

\* The inputs of a form after the objects named were destroyed by the other
\* form.
destroyedIn(f, names) ==
  [f EXCEPT !.inputs =
     [i \in 1..Len(@) |->
        IF @[i].param.name \in names THEN destroy(@[i]) ELSE @[i]]]

\* The inputs of a form after the other form, g, wrote to the objects named.
writtenIn(f, g, names) ==
  [f EXCEPT !.inputs =
     [i \in 1..Len(@) |->
        IF @[i].param.name \in names /\ IndexOfInput(g.inputs, @[i].param.name) > 0
        THEN g.inputs[IndexOfInput(g.inputs, @[i].param.name)] ELSE @[i]]]

\* A call on one form that left it as f1 and destroyed the inputs named.
SideCall(op, side, f1, destroyed) ==
  /\ form' = [form EXCEPT
                ![side] = f1,
                ![Other(side)] = destroyedIn(@, destroyed \cap form.shared),
                !.shared = @ \ destroyed]
  /\ flast' = [op |-> op, side |-> side]
  /\ UNCHANGED <<eng, last>>

CopyMake(spec) ==
  /\ ~form.copied
  /\ SideCall("make", "a", make(form.a, <<spec>>), {})

Copy ==
  /\ ~form.copied
  /\ form' = [form EXCEPT !.b = copy(form.a), !.copied = TRUE,
                          !.shared = Names(form.a)]
  /\ flast' = [op |-> "copy", side |-> "a"]
  /\ UNCHANGED <<eng, last>>

CopySetData(data) ==
  /\ ~form.copied
  /\ SideCall("setData", "a", setData(form.a, data), {})

RemoveOn(side, name) ==
  /\ form.copied
  /\ SideCall("remove", side, remove(form[side], name), {name})

ClearOn(side) ==
  /\ form.copied
  /\ SideCall("clear", side, clear(form[side]), Names(form[side]))

AddInputOn(side, params) ==
  /\ form.copied
  /\ SideCall("addInput", side,
              addInput(form[side], NewInputValidator(params)), {params.name})

\* isValid() writes the value, the records and the messages of every input
\* of the form.
IsValidOn(side) ==
  /\ form.copied
  /\ form' = [form EXCEPT
                ![side] = isValid(form[side]).f,
                ![Other(side)] =
                  writtenIn(@, isValid(form[side]).f, form.shared)]
  /\ flast' = [op |-> "isValid", side |-> side]
  /\ UNCHANGED <<eng, last>>

CopyNext ==
  \/ \E spec \in CopyFieldPool : CopyMake(spec)
  \/ Copy
  \/ \E d \in CopyDataPool : CopySetData(d)
  \/ \E side \in Sides : \E name \in Names(form[side]) : RemoveOn(side, name)
  \/ \E side \in Sides : ClearOn(side)
  \/ \E side \in Sides, params \in CopyFieldPool : AddInputOn(side, params)
  \/ \E side \in Sides : IsValidOn(side)

SpecCopy == CopyInit /\ [][CopyNext]_vars

(***************************************************************************)
(* The engine with its chain replaced between validations.                  *)
(***************************************************************************)
ReplacedChains ==
  {<<Rule("required", Undef, Null)>>,
   <<Rule("number", Undef, Null), Rule("min", Str(<<"3">>), Null)>>}

ReplacedValuePool == {Str(<<>>), Str(<<"5">>), Num(2)}

ReplacedInit ==
  /\ \E c \in ReplacedChains : eng = NewValidation(c, <<>>)
  /\ last = NoCall
  /\ form = NewFormValidator(<<>>, Obj(NoProps))
  /\ flast = NoFormCall

SetRules(rules) ==
  /\ eng.rules # rules
  /\ eng' = setRules(eng, rules)
  /\ last' = NoCall
  /\ UNCHANGED <<form, flast>>

ReplacedNext ==
  \/ \E v \in ReplacedValuePool : SetValue(v)
  \/ Validate
  \/ \E b \in BOOLEAN : SetFailsOnFirst(b)
  \/ \E c \in ReplacedChains : SetRules(c)

SpecReplaced == ReplacedInit /\ [][ReplacedNext]_vars

(***************************************************************************)
(* A form of fields declared with a type: fields are added, data is bound,  *)
(* the form is validated and single fields are validated on their own.      *)
(***************************************************************************)
TypedFieldPool ==
  {TypedParms(<<"age">>, <<Rule("min", Str(<<"3">>), Null)>>, TRUE, "file"),
   TypedParms(<<"age">>, <<Rule("number", Undef, Null),
                           Rule("min", Str(<<"3">>), Null)>>, TRUE, "number"),
   InputParms(<<"age">>, <<Rule("min", Str(<<"3">>), Null)>>, TRUE),
   TypedParms(<<"name">>, <<Rule("required", Undef, Null)>>, FALSE, "text")}

TypedDataPool ==
  {Obj(NoProps),
   Obj([age |-> Str(<<"5">>)]),
   Obj([age |-> Num(2), name |-> Str(<<"a", "b">>)]),
   Obj([age |-> Str(<<"a", "b">>)])}

InputValidCall(i, r) ==
  /\ form' = [form EXCEPT !.inputs[i] = r.input]
  /\ flast' = [NoFormCall EXCEPT
                 !.prev = Verdict(flast),
                 !.log = <<[kind |-> "input", who |-> r.input.param.name,
                            thrown |-> r.thrown, ret |-> r.ret,
                            calls |-> r.calls]>>]
  /\ UNCHANGED <<eng, last>>

\* form.get(name).valid()
InputValid(i) == InputValidCall(i, valid(form.inputs[i]))

TypedNext ==
  \/ \E params \in TypedFieldPool : AddInput(params)
  \/ \E d \in TypedDataPool : SetData(d)
  \/ IsValid
  \/ \E i \in 1..Len(form.inputs) : InputValid(i)

SpecTyped == WildInit /\ [][TypedNext]_vars

(***************************************************************************)
(* The form's claims                                                        *)
(***************************************************************************)
InputOf(name) == form.inputs[IndexOfInput(form.inputs, name)]

RecordIn(input, r) ==
  input.validator.ruleExecuted[IndexOfRecord(input.validator.ruleExecuted, r)]

FieldEntries ==
  {i \in 1..Len(flast.log) : flast.log[i].kind \in {"setValue", "valid"}}

WithEntries == {i \in 1..Len(flast.log) : flast.log[i].kind = "with"}

HandlerEntries(event) ==
  {i \in 1..Len(flast.log) :
     flast.log[i].kind = "handler" /\ flast.log[i].who[1] = event}

FormReturned == flast.called /\ flast.thrown = <<>>

\* The field is declared [number, min:x] and bound to the string "5": min's
\* callback is reached and its bound is not a number.
MinXOn5(name) ==
  LET rules == InputOf(name).param.rules IN
  /\ Len(rules) = 2
  /\ rules[1].name = "number" /\ rules[2].name = "min"
  /\ rules[2].params = Str(<<"x">>)
  /\ data_get(form.data, name) = Str(<<"5">>)

\* C6: a rule whose callback returns passes = false makes no validate() or
\* isValid() throw: the field's validation returns false, the rule's record
\* is failed with a message, and isValid() returns false; what a callback
\* throws (min with a bound that is not a number) is thrown by the field's
\* validation and by isValid(), at the point it happens.
C6_FailingRuleNeverThrows ==
  flast.called =>
    /\ \A i \in FieldEntries :
         LET ev == flast.log[i] IN
         (ev.thrown = <<>> /\ ev.failed # {}) =>
           /\ ~ev.ret
           /\ \A r \in ev.failed :
                LET rec == RecordIn(InputOf(ev.who), r) IN
                ~rec.passed /\ rec.message.k = "string" /\ rec.message.s # <<>>
    /\ (flast.thrown = <<>> /\ \E i \in FieldEntries : flast.log[i].failed # {})
         => ~flast.ret
    /\ \A i \in 1..Len(flast.log) :
         flast.log[i].thrown # <<>> =>
           i = Len(flast.log) /\ flast.thrown = flast.log[i].thrown
    /\ flast.thrown # <<>> =>
         \E i \in FieldEntries : flast.log[i].thrown = flast.thrown
    /\ \A i \in FieldEntries :
         (flast.log[i].kind = "setValue" /\ MinXOn5(flast.log[i].who)) =>
           flast.log[i].thrown = <<"Min rule parameter must be an integer">>

C6_Witness ==
  /\ flast.called /\ Len(flast.log) = 2
  /\ flast.log[1].failed = {"min"} /\ flast.log[1].thrown = <<>>
  /\ ~flast.log[1].ret
  /\ MinXOn5(flast.log[2].who)
  /\ flast.thrown = <<"Min rule parameter must be an integer">>

\* The verdict of a field's chain on a value, by an engine that has
\* validated nothing before.
FreshVerdict(input, value) ==
  validate([NewInputValidator(input.param).validator EXCEPT !.value = value]).ret

AllFieldsPass ==
  \A i \in 1..Len(form.inputs) :
    FreshVerdict(form.inputs[i],
                 data_get(form.data, form.inputs[i].param.name))

AllPredicatesTrue ==
  \A i \in 1..Len(form.withCallbacks) : Predicate(form.withCallbacks[i], form)

\* C7: an isValid() call that returns, returns true exactly when every field
\* passes on the value bound at its path and every predicate given to
\* with() is true of the form.
C7_FormVerdict ==
  FormReturned => (flast.ret <=> (AllFieldsPass /\ AllPredicatesTrue))

C7_Witness ==
  /\ FormReturned /\ flast.ret
  /\ Len(form.inputs) = 2 /\ Len(form.withCallbacks) >= 1

C7_WitnessPredicateFalse ==
  /\ FormReturned /\ ~flast.ret
  /\ Len(form.inputs) >= 1 /\ AllFieldsPass /\ ~AllPredicatesTrue

\* C8 as stated: an isValid() call that returns has invoked every predicate,
\* also after one returned false, and each of them after every field.
C8_EveryPredicateInvoked ==
  FormReturned =>
    /\ \A p \in 1..Len(form.withCallbacks) :
         \E i \in WithEntries : flast.log[i].who = <<form.withCallbacks[p]>>
    /\ Cardinality(WithEntries) = Len(form.withCallbacks)
    /\ \A i \in WithEntries : \A j \in FieldEntries : j < i

\* The predicates before the first that is false of the form, and that one.
PredicatesReached ==
  {p \in 1..Len(form.withCallbacks) :
     \A q \in 1..(p - 1) : Predicate(form.withCallbacks[q], form)}

\* C8 amended: an isValid() call that returns has invoked the predicates in
\* registration order up to and including the first that returned false and
\* none after it, whether or not a field failed, and each of them after
\* every field has been given its value and evaluated.
C8_PredicatesUntilFirstFalse ==
  FormReturned =>
    /\ Cardinality(WithEntries) = Cardinality(PredicatesReached)
    /\ \A p \in PredicatesReached :
         \E i \in WithEntries :
           /\ flast.log[i].who = <<form.withCallbacks[p]>>
           /\ Cardinality({h \in WithEntries : h < i}) = p - 1
    /\ \A i \in WithEntries : \A j \in FieldEntries : j < i
    /\ \A n \in 1..Len(form.inputs) :
         \E j \in FieldEntries :
           flast.log[j].kind = "setValue"
           /\ flast.log[j].who = form.inputs[n].param.name

C8_Witness ==
  /\ FormReturned
  /\ Len(form.withCallbacks) = 2 /\ Cardinality(WithEntries) = 1
  /\ ~Predicate(form.withCallbacks[1], form)
  /\ Len(form.inputs) >= 1
  /\ \E j \in FieldEntries : flast.log[j].failed # {}

\* C9: an isValid() call that returns runs the form.fails handlers exactly
\* when it returns false and the call that returned before it returned true
\* or there was none, and the form.passes handlers exactly when it returns
\* true and the call before it returned false or there was none: a verdict
\* repeated by the next call runs no handler.
C9_EventsOnlyOnTransition ==
  FormReturned =>
    /\ (HandlerEntries("form.fails") # {})
         <=> (~flast.ret /\ (~flast.prev.called \/ flast.prev.ret))
    /\ (HandlerEntries("form.passes") # {})
         <=> (flast.ret /\ (~flast.prev.called \/ ~flast.prev.ret))
    /\ Cardinality(HandlerEntries("form.fails")) <= 1
    /\ Cardinality(HandlerEntries("form.passes")) <= 1

C9_Witness ==
  /\ FormReturned /\ ~flast.ret
  /\ flast.prev.called /\ ~flast.prev.ret
  /\ HandlerEntries("form.fails") = {} /\ HandlerEntries("form.passes") = {}

C9_WitnessTransition ==
  /\ FormReturned /\ ~flast.ret
  /\ flast.prev.called /\ flast.prev.ret
  /\ Cardinality(HandlerEntries("form.fails")) = 1

(***************************************************************************)
(* The wildcard expansion's claim                                           *)
(***************************************************************************)
DataCalled == Len(flast.log) = 1 /\ flast.log[1].kind = "data"

\* The setData or mergeData call just made was given data with the keys the
\* form was already expanded for.
Reexpanded ==
  DataCalled /\ flast.log[1].expanded /\ flast.log[1].sameShape

\* The last template that expands to the field name.
TemplateOf(name) ==
  LET ws == {w \in 1..Len(form.wildcardPattern) :
               \E i \in 1..Len(ExpansionKeys(form, w)) :
                 name = Append(WildcardPrefix(form.wildcardPattern[w].name),
                               ExpansionKeys(form, w)[i])}
  IN form.wildcardPattern[CHOOSE w \in ws : \A v \in ws : v <= w]

\* C10: after setData or mergeData is called again with data of the shape
\* the form is expanded for, the set of field names and the number of
\* fields are what they were, no two fields have the same name, and every
\* field a template expands to carries exactly the rules of its template.
C10_ExpansionIdempotent ==
  Reexpanded =>
    /\ Names(form) = flast.log[1].names
    /\ Len(form.inputs) = flast.log[1].count
    /\ \A i, j \in 1..Len(form.inputs) :
         form.inputs[i].param.name = form.inputs[j].param.name => i = j
    /\ \A name \in ExpansionNames(form) :
         /\ name \in Names(form)
         /\ InputOf(name).param.rules = TemplateOf(name).input.rules
         /\ InputOf(name).validator.rules = TemplateOf(name).input.rules
         /\ InputOf(name).validator.ruleExecuted = <<>>

C10_Witness ==
  /\ Reexpanded
  /\ Len(form.wildcardPattern) = 1
  /\ Names(form) = {<<"users", "a">>, <<"users", "b">>}
  /\ Len(form.inputs) = 2
  /\ Len(InputOf(<<"users", "a">>).validator.rules) = 2

\* The segments after the first "*" of a template name.
RECURSIVE WildcardSuffix(_)
WildcardSuffix(pattern) ==
  IF pattern = <<>> THEN <<>>
  ELSE IF Head(pattern) = "*" THEN Tail(pattern)
  ELSE WildcardSuffix(Tail(pattern))

\* C11: after setData or mergeData, a template a.*.b has, for every key k of
\* the object bound at a, a field named a.k.b.
C11_SuffixedTemplateNames ==
  DataCalled =>
    \A w \in 1..Len(form.wildcardPattern) :
      WildcardSuffix(form.wildcardPattern[w].name) # <<>> =>
        \A i \in 1..Len(ExpansionKeys(form, w)) :
          (Append(WildcardPrefix(form.wildcardPattern[w].name),
                  ExpansionKeys(form, w)[i])
             \o WildcardSuffix(form.wildcardPattern[w].name))
            \in Names(form)

ExpansionCalled ==
  Len(flast.log) = 1 /\ flast.log[1].kind \in {"data", "make"}

\* No template of the form has an object bound at its prefix.
NothingToExpand ==
  \A w \in 1..Len(form.wildcardPattern) :
    data_get(form.data, WildcardPrefix(form.wildcardPattern[w].name)).k
      # "object"

\* C12: after a setData, mergeData or make of a template that leaves every
\* template with a prefix that is absent from the data or bound to a value
\* that is no object, the form has the fields it had before the call: the
\* expansion has created none.
C12_NonObjectPrefix ==
  (ExpansionCalled /\ NothingToExpand) =>
    /\ Names(form) = flast.log[1].names
    /\ Len(form.inputs) = flast.log[1].count

C12_Witness ==
  /\ ExpansionCalled /\ NothingToExpand
  /\ Len(form.wildcardPattern) = 1
  /\ data_get(form.data, <<"users">>) = Str(<<"5">>)
  /\ Len(form.inputs) = 2

\* The field is not one the templates expand to over the bound data, and
\* carries the name and rules a template gave it.
StaleField(input) ==
  /\ input.param.name \notin ExpansionNames(form)
  /\ \E w \in 1..Len(form.wildcardPattern) :
       /\ Len(input.param.name)
            = Len(WildcardPrefix(form.wildcardPattern[w].name)) + 1
       /\ SubSeq(input.param.name, 1, Len(input.param.name) - 1)
            = WildcardPrefix(form.wildcardPattern[w].name)
       /\ input.param.rules = form.wildcardPattern[w].input.rules

HasRequired(input) ==
  \E i \in 1..Len(input.param.rules) : input.param.rules[i].name = "required"

\* C13: setData and mergeData remove no field, so a field a template made
\* for key k stays when the bound object no longer has k; an isValid() call
\* gives that field the value undefined and validates it, and when its
\* rules include required the field fails and isValid() returns false.
C13_StaleWildcardFields ==
  /\ DataCalled => flast.log[1].names \subseteq Names(form)
  /\ (flast.called /\ flast.thrown = <<>>) =>
       \A n \in 1..Len(form.inputs) :
         StaleField(form.inputs[n]) =>
           /\ form.inputs[n].value = Undef
           /\ \E j \in FieldEntries :
                /\ flast.log[j].kind = "setValue"
                /\ flast.log[j].who = form.inputs[n].param.name
                /\ HasRequired(form.inputs[n]) => ~flast.log[j].ret
           /\ HasRequired(form.inputs[n]) => ~flast.ret

C13_Witness ==
  /\ flast.called /\ flast.thrown = <<>> /\ ~flast.ret
  /\ data_get(form.data, <<"users">>) = Obj([b |-> Num(2)])
  /\ \E n \in 1..Len(form.inputs) :
       /\ form.inputs[n].param.name = <<"users", "a">>
       /\ StaleField(form.inputs[n]) /\ HasRequired(form.inputs[n])
  /\ \A j \in FieldEntries :
       flast.log[j].who = <<"users", "b">> => flast.log[j].ret

AddInputCalled == Len(flast.log) = 1 /\ flast.log[1].kind = "addInput"

UniqueNames ==
  \A i, j \in 1..Len(form.inputs) :
    form.inputs[i].param.name = form.inputs[j].param.name => i = j

\* C14: whatever make, addInput, setData, mergeData and remove calls were
\* made, no two fields of the form have the same name; an addInput() of an
\* input whose name a field already has calls destroy() on that field, which
\* empties its rules, and leaves the form with the input given as the only
\* field of that name and that field last.
C14_UniqueNames ==
  /\ UniqueNames
  /\ AddInputCalled =>
       LET given == flast.log[1].given IN
       /\ form.inputs[Len(form.inputs)].param = given.param
       /\ form.inputs[Len(form.inputs)].validator = given.validator
       /\ given.param.name \in flast.log[1].names =>
            /\ Len(flast.log[1].destroyed) = 1
            /\ flast.log[1].destroyed[1].param.name = given.param.name
            /\ flast.log[1].destroyed[1].param.rules = <<>>
            /\ flast.log[1].destroyed[1].validator.rules = <<>>
            /\ Len(form.inputs) = flast.log[1].count
            /\ Names(form) = flast.log[1].names

C14_Witness ==
  /\ AddInputCalled
  /\ Len(flast.log[1].destroyed) = 1
  /\ Len(form.inputs) = 2
  /\ form.inputs[2].param.name = <<"users", "a">>
  /\ form.inputs[2].param.rules # <<>>

ErrorsRead ==
  /\ Len(flast.log) = 1 /\ flast.log[1].kind = "errors"
  /\ flast.log[1].thrown = <<>>

\* What an engine that has validated nothing leaves of the field's chain on
\* the value the field holds.
FreshRun(input) ==
  validate([NewInputValidator(input.param).validator
              EXCEPT !.value = input.value])

FreshFailed(input) ==
  {i \in 1..Len(FreshRun(input).calls) :
     FreshRun(input).calls[i].invoked /\ ~FreshRun(input).calls[i].passes}

\* The message of the first rule of the chain that fails on the value.
FirstFailingMessage(input) ==
  FreshRun(input).eng.ruleExecuted[
    IndexOfRecord(FreshRun(input).eng.ruleExecuted,
      input.param.rules[CHOOSE i \in FreshFailed(input) :
                          \A j \in FreshFailed(input) : i <= j].name)].message

\* C15: the map form.errors returns has an entry for a field exactly when
\* the field's chain fails on the value the field holds, keyed by the
\* field's name, and the entry is the message of the first rule of the
\* chain that fails on that value.
C15_ErrorsMap ==
  ErrorsRead =>
    /\ DOMAIN flast.log[1].errors =
         {form.inputs[n].param.name :
            n \in {m \in 1..Len(form.inputs) : ~FreshRun(form.inputs[m]).ret}}
    /\ \A n \in 1..Len(form.inputs) :
         ~FreshRun(form.inputs[n]).ret =>
           flast.log[1].errors[form.inputs[n].param.name]
             = FirstFailingMessage(form.inputs[n])

C15_Witness ==
  /\ ErrorsRead
  /\ Len(form.inputs) = 2
  /\ DOMAIN flast.log[1].errors = {<<"name">>}
  /\ Cardinality(FreshFailed(InputOf(<<"name">>))) = 2
  /\ FreshRun(InputOf(<<"profile", "age">>)).ret
  /\ flast.log[1].errors[<<"name">>].k = "string"
  /\ flast.log[1].errors[<<"name">>].s # <<>>

InputValidated == Len(flast.log) = 1 /\ flast.log[1].kind = "input"

\* C18: when a field is validated, the first callback of its chain is given
\* the type declared in the field's InputParms, 'text' when none is declared.
C18_DeclaredTypeHint ==
  (InputValidated /\ flast.log[1].calls # <<>>) =>
    flast.log[1].calls[1].type = InputOf(flast.log[1].who).type

ReadRules == {"default", "required", "min", "customRule"}

\* A Local instance other than the one the calls were made on: it refers to
\* the module objects, as every instance no call was made on does.
OtherInstance == [eng EXCEPT !.trLocal = NewLocal]

\* C19: whatever was called on one Local instance, getRuleMessage and getLocal
\* of any other instance, one created afterwards included, return what they
\* return on an instance created when the modules were loaded.
C19_CatalogsPerInstance ==
  /\ getLocal(OtherInstance) = getLocal(LoadedModules)
  /\ \A rule \in ReadRules, lang \in LocalLangs \cup {NoLang} :
       LocalGetRuleMessage(OtherInstance, rule, lang)
         = LocalGetRuleMessage(LoadedModules, rule, lang)

MergeOps == {"addMessage", "putMessages", "translate"}

\* C20: addMessage, putMessages and translate change only the rule keys they
\* are given, and only in one language: there is a language such that every
\* message of every language that had a catalog, and of that language, reads
\* the same before and after the call unless it is a given key of that
\* language.
C20_MergeFrame ==
  [][(last'.op \in MergeOps) =>
       \E target \in LocalLangs :
         \A lang \in DOMAIN eng.trLocal.message \cup {target},
            rule \in ReadRules :
           (lang # target \/ rule \notin last'.rules) =>
             LocalGetRuleMessage(eng, rule, lang)
               = LocalGetRuleMessage(eng', rule, lang)]_vars

\* The catalog the instance in use holds for a language, the 'en' catalog
\* when it holds none.
CatalogOf(lang) ==
  IF lang \in DOMAIN eng.trLocal.message
  THEN Deref(eng, eng.trLocal.message[lang])
  ELSE Deref(eng, eng.trLocal.message["en"])

\* C21: getRuleMessage(rule, locale) is the entry of rule in the catalog of
\* locale when there is one, otherwise that catalog's 'default' entry, and the
\* 'en' catalog is read in the same way when locale has no catalog.
C21_RuleMessageFallback ==
  \A rule \in ReadRules, lang \in LocalLangs :
    LocalGetRuleMessage(eng, rule, lang) =
      IF rule \in DOMAIN CatalogOf(lang) THEN Str(CatalogOf(lang)[rule])
      ELSE IF "default" \in DOMAIN CatalogOf(lang)
           THEN Str(CatalogOf(lang)["default"])
           ELSE Undef

\* A language without a catalog is read after messages were added, and a rule
\* the 'fr' catalog has no entry for is read as that catalog's default.
C21_Witness ==
  /\ last.op = "addMessage"
  /\ "es" \notin DOMAIN eng.trLocal.message
  /\ LocalGetRuleMessage(eng, "required", "es") = Str(<<"Custom">>)
  /\ "customRule" \notin DOMAIN CatalogOf("fr")
  /\ LocalGetRuleMessage(eng, "customRule", "fr")
       = Str(fr_messages["default"])

\* The parameters of the call, cut at the commas.
ParsedArgs == spliteParam(ToStringOrEmpty(last.oParams))

Placeholders == {":field", "...arg"} \cup {ArgName(i) : i \in 0..3}

\* What a placeholder of the template stands for: nothing when it has no
\* parameter, or an empty one.
StandsFor(chunk) ==
  IF chunk = ":field" THEN last.attribute
  ELSE IF chunk = "...arg" THEN JoinArgs(ParsedArgs)
  ELSE IF \E i \in 1..Len(ParsedArgs) : chunk = ArgName(i - 1)
       THEN ParsedArgs[CHOOSE i \in 1..Len(ParsedArgs) :
                         chunk = ArgName(i - 1)]
       ELSE <<>>

HasValue(chunk) ==
  /\ chunk \in Placeholders
  /\ chunk = "...arg" \/ StandsFor(chunk) # <<>>

\* The template with the first occurrence of each placeholder that has a
\* value replaced by that value, the texts put in not being read again.
RECURSIVE SubstitutedFrom(_, _)
SubstitutedFrom(i, done) ==
  IF i > Len(last.message) THEN <<>>
  ELSE IF HasValue(last.message[i]) /\ last.message[i] \notin done
       THEN StandsFor(last.message[i])
              \o SubstitutedFrom(i + 1, done \cup {last.message[i]})
       ELSE <<last.message[i]>> \o SubstitutedFrom(i + 1, done)

\* C22: parseMessage replaces ':field' by the attribute, ':argI' by the I-th
\* comma-separated parameter and '...arg' by the parameters joined with ', ',
\* and leaves a placeholder without a parameter as it is.
C22_ParseMessage == last.called => last.ret = SubstitutedFrom(1, {})

\* A parameter of the call holds the text of a placeholder.
PlaceholderInParams ==
  \E i \in 1..Len(ParsedArgs) : \E j \in 1..Len(ParsedArgs[i]) :
    ParsedArgs[i][j] \in Placeholders

\* C23: the text put in for a parameter is not substituted itself, even when
\* it holds ':argN' of a later parameter or ':field'.
C23_NotReentrant ==
  (last.called /\ PlaceholderInParams) =>
    \A i \in 1..Len(ParsedArgs) :
      (ParsedArgs[i] # <<>>
       /\ \E h \in 1..Len(last.message) : last.message[h] = ArgName(i - 1))
      => \E k \in 0..(Len(last.ret) - Len(ParsedArgs[i])) :
           /\ SubSeq(last.ret, k + 1, k + Len(ParsedArgs[i])) = ParsedArgs[i]
           /\ SubSeq(last.ret, 1, k)
                = SubSeq(SubstitutedFrom(1, {}), 1, k)

Registered(e) ==
  {HandlersOf(form, e)[i] : i \in 1..Len(HandlersOf(form, e))}

Invoked(e) == {flast.log[i].who[2] : i \in HandlerEntries(e)}

\* C24: every handler given to onValidate is invoked by every isValid() call
\* that returns, whether it returns true or false.
C24_ValidatedHandlers ==
  FormReturned =>
    (Registered("form.validated") \ {"noop"}) \subseteq Invoked("form.validated")

\* C30: a form.fails handler registered after isValid() returned false is
\* invoked by an isValid() call exactly when that call returns false and the
\* one before it returned true; and the same for a form.passes handler
\* registered after isValid() returned true, the other way round.
C30_LateHandlers ==
  FormReturned =>
    /\ "afterFails" \in Registered("form.fails") =>
         ("afterFails" \in Invoked("form.fails")
            <=> (~flast.ret /\ flast.prev.ret))
    /\ "afterPasses" \in Registered("form.passes") =>
         ("afterPasses" \in Invoked("form.passes")
            <=> (flast.ret /\ ~flast.prev.ret))

\* A handler registered after a failure is passed over by a failing call.
C30_Witness ==
  /\ FormReturned /\ ~flast.ret /\ ~flast.prev.ret
  /\ "afterFails" \in Registered("form.fails")
  /\ Invoked("form.fails") = {}

\* The handler registered after a failure is invoked at the next failure that
\* follows a pass.
C30_WitnessInvoked ==
  /\ FormReturned /\ ~flast.ret /\ flast.prev.ret
  /\ "afterFails" \in Invoked("form.fails")

VerdictOf(r) == [ret |-> r.ret, thrown |-> r.thrown]

\* What is read of a form: the chain of every field, what isValid() would
\* return and what errors would hold.
Observed(f) ==
  [rules |-> [i \in 1..Len(f.inputs) |->
                [name |-> f.inputs[i].param.name,
                 rules |-> f.inputs[i].validator.rules]],
   verdict |-> VerdictOf(isValid(f)),
   errors |-> errors(f).errors]

\* C25: remove, clear or addInput on a form or on its copy leaves the rules,
\* the verdict and the errors of the other form as they were.
C25_CopyIsolation ==
  [][(flast'.op \in {"remove", "clear", "addInput"}) =>
       Observed(form'[Other(flast'.side)])
         = Observed(form[Other(flast'.side)])]_vars

InChain(r) == \E i \in 1..Len(eng.rules) : eng.rules[i].name = r

\* C26: once the chain is replaced, the records made under the chain before
\* are gone: the executed records and the errors are of rules of the chain
\* in place, and a validate() that returns, returns true exactly when no
\* record of a rule of that chain is failed.
C26_ReplacedChainRecords ==
  /\ \A i \in 1..Len(eng.ruleExecuted) : InChain(eng.ruleExecuted[i].ruleName)
  /\ \A r \in DOMAIN getErrors(eng) : InChain(r)
  /\ Returned =>
       (last.ret <=> \A i \in 1..Len(eng.ruleExecuted) :
                       InChain(eng.ruleExecuted[i].ruleName)
                         => eng.ruleExecuted[i].passed)

\* C27: the executed records have distinct rule names, and a validate() or
\* a value assignment leaves every record where it was, under its name: the
\* passes write to the records they find and push the others.
C27_OneRecordPerRule ==
  [][/\ \A i, j \in 1..Len(eng'.ruleExecuted) :
          eng'.ruleExecuted[i].ruleName = eng'.ruleExecuted[j].ruleName
            => i = j
     /\ Len(eng.ruleExecuted) <= Len(eng'.ruleExecuted)
     /\ \A i \in 1..Len(eng.ruleExecuted) :
          eng'.ruleExecuted[i].ruleName = eng.ruleExecuted[i].ruleName]_vars

\* A pass that stopped at its first rule on an engine that holds the records
\* of three rules from the passes before.
C27_Witness ==
  /\ Returned /\ Len(last.calls) = 1
  /\ Len(eng.ruleExecuted) = 3
  /\ ~eng.ruleExecuted[1].passed

\* What a new engine with the same chain and setting returns for the value.
FreshReturn ==
  validate([NewValidation(eng.rules, eng.attr) EXCEPT
              !.value = last.raw, !.failOnfirst = last.failOnfirst]).ret

\* C28: what a validation of a value returns on a chain of distinctly named
\* rules is what a new engine with that chain and that failsOnFirst returns
\* for the value, whatever was validated before.
C28_VerdictOfValueOnly ==
  (Returned /\ DistinctNames(eng.rules)) => last.ret = FreshReturn

\* A passing validation on an engine whose records were failed before it.
C28_Witness ==
  /\ Returned /\ last.ret /\ Len(eng.rules) >= 2
  /\ \E i \in 1..Len(eng.ruleExecuted) :
       /\ eng.ruleExecuted[i].passed
       /\ eng.ruleExecuted[i].message # Null

\* C29: validate() called again on the value the engine holds, with the same
\* failsOnFirst, returns what the call before returned and leaves the passed
\* flag of every record as it was.
C29_RevalidateSame ==
  [][(/\ Returned /\ last'.called /\ last'.thrown = <<>>
      /\ last'.raw = eng.value
      /\ last'.failOnfirst = last.failOnfirst)
     => /\ last'.ret = last.ret
        /\ Len(eng'.ruleExecuted) = Len(eng.ruleExecuted)
        /\ \A i \in 1..Len(eng.ruleExecuted) :
             eng'.ruleExecuted[i].passed = eng.ruleExecuted[i].passed]_vars

====
